---- MODULE Spec2Model ----
(***************************************************************************)
(* A model of the social-listening toolbox (src/src/utils.py,              *)
(* src/src/reddit_analyzer.py, src/src/youtube_analyzer.py,                *)
(* src/src/external_analyzer.py).                                          *)
(*                                                                         *)
(* The program is strictly sequential.  One operation runs at a time: the  *)
(* variable fn names the function that was entered from the idle state and  *)
(* pc is its position.  Collaborators (the Gemini client, the Reddit       *)
(* client, the YouTube service, the file system) are the environment:      *)
(* every outcome they can produce is a nondeterministic choice.            *)
(*                                                                         *)
(* Python values are tagged records: [k |-> "None"], [k |-> "dict", ...].  *)
(* Text whose characters the code inspects is a sequence of one-character  *)
(* strings; text the code only carries around is a TLA+ string.            *)
(***************************************************************************)
EXTENDS Integers, Sequences, FiniteSets, TLC

\* ------------------------------------------------------------------ bounds
MaxItems == 3        \* longest list handed to a batch function
MaxResults == 2      \* longest array the classifier answers with
MaxSubs == 2         \* most subreddits requested in one run
MaxPosts == 3        \* most posts one run fetches over all subreddits
MaxVideos == 3       \* most search results handed to a distribution
MaxAnalyzed == 2     \* most videos whose comments one run analyses
MaxComments == 3     \* most comments one run fetches over all videos
MaxRows == 3         \* most rows of a report opened in a browser
MaxUploads == 4      \* most videos of a channel's uploads playlist
MaxLimit == 3        \* largest video_limit a run is started with
PageSize == 2        \* entries of one playlist page (maxResults, scaled)

\* ------------------------------------------------------------ Python values
None == [k |-> "None"]
\* an exception that leaves the running function
Raise == [k |-> "raise"]

Range(s) == {s[j] : j \in 1..Len(s)}

SeqsUpTo(S, n) == UNION {[1..m -> S] : m \in 0..n}

\* ------------------------------------------------------------ Python text
\* Text is a sequence of one-character strings.
Whitespace == {" ", "\n"}

RECURSIVE LStrip(_)
LStrip(s) ==
    IF s # <<>> /\ Head(s) \in Whitespace THEN LStrip(Tail(s)) ELSE s

RECURSIVE RStrip(_)
RStrip(s) ==
    IF s # <<>> /\ s[Len(s)] \in Whitespace
    THEN RStrip(SubSeq(s, 1, Len(s) - 1))
    ELSE s

\* str.strip()
Strip(s) == RStrip(LStrip(s))

StartsWith(s, p) == Len(s) >= Len(p) /\ SubSeq(s, 1, Len(p)) = p

\* str.replace(old, new): every non-overlapping occurrence, left to right
\* (old is never empty here)
RECURSIVE Replace(_, _, _)
Replace(s, old, new) ==
    IF s = <<>> THEN <<>>
    ELSE IF StartsWith(s, old)
         THEN new \o Replace(SubSeq(s, Len(old) + 1, Len(s)), old, new)
         ELSE <<Head(s)>> \o Replace(Tail(s), old, new)

\* str.lower() on the letters the model's texts use
LowerChar(ch) ==
    CASE ch = "P" -> "p" [] ch = "I" -> "i" [] ch = "S" -> "s"
      [] ch = "U" -> "u" [] ch = "E" -> "e" [] ch = "J" -> "j"
      [] ch = "O" -> "o" [] ch = "N" -> "n" [] ch = "Q" -> "q"
      [] ch = "B" -> "b" [] ch = "Z" -> "z" [] ch = "H" -> "h"
      [] OTHER -> ch

Lower(s) == [j \in 1..Len(s) |-> LowerChar(s[j])]

\* sub in s
Contains(s, sub) ==
    \E j \in 0..(Len(s) - Len(sub)) : SubSeq(s, j + 1, j + Len(sub)) = sub

\* s[:n]
Prefix(s, n) == SubSeq(s, 1, IF n < Len(s) THEN n ELSE Len(s))

\* the backquote character (U+0060), which a TLA+ string cannot hold
Backquote == "BQ"
Fence == <<Backquote, Backquote, Backquote>>
FenceJson == Fence \o <<"j", "s", "o", "n">>

\* response.text.strip().replace(FenceJson, "").replace(Fence, "").strip()
CleanResponse(text) ==
    Strip(Replace(Replace(Strip(text), FenceJson, <<>>), Fence, <<>>))

\* json.loads on the documents of the model: whitespace between tokens is
\* skipped; anything that is not one JSON document is a JSONDecodeError.
RECURSIVE DropWhitespace(_)
DropWhitespace(s) ==
    IF s = <<>> THEN <<>>
    ELSE IF Head(s) \in Whitespace THEN DropWhitespace(Tail(s))
         ELSE <<Head(s)>> \o DropWhitespace(Tail(s))

JSONDecodeError == [k |-> "JSONDecodeError"]

JsonLoads(s) ==
    LET t == DropWhitespace(s) IN
    IF t = <<"{", "}">> THEN [k |-> "dict", keys |-> {}]
    ELSE IF t = <<"[", "]">> THEN [k |-> "list", len |-> 0]
    ELSE IF t = <<"1">> THEN [k |-> "int", n |-> 1]
    ELSE JSONDecodeError

\* ------------------------------------------------------------------ state
VARIABLES
    pc,               \* position in the running function
    fn,               \* the function entered from idle
    items,            \* the caller's list handed to a batch function
    i,                \* loop counter of the running function
    prompt_lines,     \* prompt_comments / prompt_posts: the numbered lines
    requests,         \* prompts handed to get_gemini_analysis, in call order
    analysis_result,  \* what get_gemini_analysis returned to the caller
    ret,              \* the value the running function returned
    log,              \* messages printed so far, in order
    is_json_output,   \* get_gemini_analysis: the flag it was called with
    response,         \* get_gemini_analysis: its local response
    sent,             \* get_gemini_analysis: calls of model.generate_content
    files,            \* the files written so far, in order
    subreddits,       \* run_reddit_analysis: the requested subreddit names
    reddit,           \* the PRAW client, or None
    posts,            \* get_reddit_posts: all_posts / the caller's posts
    problem_posts,    \* run_reddit_analysis: the posts its predicate flags
    problem_density,  \* as printed with two decimals, in hundredths of 1%
    deep_dive,        \* run_reddit_analysis: the flag
    context,          \* run_reddit_analysis: the deep-dive context, or None
    output_file_base, \* the caller-supplied base path
    videos,               \* external_analyzer: the search results
    channel_details_map,  \* analyze_channel_authority: channel id -> subs
    distribution,         \* age_distribution / authority_distribution
    report,               \* the distribution lines as printed
    videos_to_analyze,    \* analyze_video_comments: the videos, in order
    comments,             \* the comments fetched for the current video
    c,                    \* position in comments
    fetched,              \* every comment fetched so far, in fetch order
    analysis_results,     \* analyze_video_comments: the rows to write
    all_questions,        \* analyze_video_comments: summaries of questions
    output_file,          \* analyze_video_comments: the CSV path
    config,               \* config.ini: the credential value of each section
    contacted,            \* the collaborators the running function itself
                          \* sent a request to (not those of a callee that
                          \* is entered on its own, get_gemini_analysis)
    table,                \* the report in the browser: table.rows, the
                          \* header row first
    dir,                  \* sortTable: its local dir
    switchcount,          \* sortTable: its local switchcount
    columnIndex,          \* sortTable: the column it was called with
    keywordFilter,        \* the value of the input keywordFilter
    categoryFilter,       \* the value of the select categoryFilter
    sort_by,              \* run_youtube_analysis: 'popular' or 'newest'
    video_limit,          \* run_youtube_analysis: the number of videos asked
    uploads,              \* the uploads playlist of the channel, in order
    video_ids,            \* get_channel_videos: the ids collected so far
    next_page_token       \* get_channel_videos: the token of the next page

redditVars == <<subreddits, reddit, posts, problem_posts, problem_density,
                deep_dive, context, output_file_base>>

extVars == <<videos, channel_details_map, distribution, report>>

pageVars == <<table, dir, switchcount, columnIndex, keywordFilter,
              categoryFilter>>

selVars == <<sort_by, video_limit, uploads, video_ids, next_page_token>>

ytVars == <<videos_to_analyze, comments, c, fetched, analysis_results,
            all_questions, output_file, pageVars, selVars>>

envVars == <<config, contacted>>

vars == <<pc, fn, items, i, prompt_lines, requests, analysis_result, ret,
          log, is_json_output, response, sent, files, redditVars, extVars,
          ytVars, envVars>>

\* what the functions of utils.py never touch
outsideGemini == <<files, redditVars, extVars, ytVars>>
outsideUtils == <<outsideGemini, envVars>>

batchVars == <<items, i, prompt_lines, analysis_result>>
gemVars == <<is_json_output, response, sent>>

\* --------------------------------------------------- inputs of the batchers
CommentTexts == {"a", "b"}
NoId == -9           \* a comment dictionary arrives without a usable 'id'

\* get_video_comments builds {'text', 'like_count'}; 'id' is set by the batcher
CommentItems == [id : {NoId}, text : CommentTexts]
PostItems == [id : {NoId}, title : {"t", "u"}, snippet : {"s"}]

\* --------------------------------------------- decoded classifier responses
Categories == {"Question", "Other"}
ResultIds == -1..MaxItems
\* an entry of "results"; the id NoId stands for an entry without 'id'
ResultEntries == [id : ResultIds \cup {NoId}, category : Categories]

\* decoded answers that are no JSON object: a number, an array
OtherJson ==
    {[k |-> "int", n |-> 1], [k |-> "list", len |-> 0], [k |-> "list", len |-> 1]}

\* json.loads of a batch-comment answer: a dict, empty, with other keys
\* only, or with "results"
CommentResponses ==
    {[k |-> "dict", keys |-> ks, results |-> <<>>] : ks \in {{}, {"note"}}}
    \cup {[k |-> "dict", keys |-> {"results"}, results |-> rs] :
             rs \in SeqsUpTo(ResultEntries, MaxResults)}
    \cup OtherJson

\* json.loads of a batch-post answer: a dict, empty, with other keys only,
\* or with "problem_post_ids" holding an array or something else; hashable
\* is false when an element of the array is itself an array or an object
PostResponses ==
    {[k |-> "dict", keys |-> ks, is_list |-> FALSE, ids |-> <<>>,
      hashable |-> TRUE] : ks \in {{}, {"note"}, {"problem_post_ids"}}}
    \cup {[k |-> "dict", keys |-> {"problem_post_ids"}, is_list |-> TRUE,
           ids |-> s, hashable |-> TRUE] :
             s \in SeqsUpTo(ResultIds, MaxResults)}
    \cup {[k |-> "dict", keys |-> {"problem_post_ids"}, is_list |-> TRUE,
           ids |-> <<>>, hashable |-> FALSE]}
    \cup OtherJson

\* bool(v) of a value get_gemini_analysis returned
Truthy(v) ==
    CASE v.k = "None" -> FALSE
      [] v.k = "dict" -> v.keys # {}
      [] v.k = "list" -> v.len > 0
      [] v.k = "int" -> v.n # 0
      [] v.k = "str" -> v.s # <<>>
      [] OTHER -> TRUE

\* ------------------------------------------ response bodies of the service
Tags == {<<>>, <<"j", "s", "o", "n">>, <<"j", "s">>, <<"J", "S", "O", "N">>}
ValidDocs == {<<"{", "}">>, <<"[", " ", "]">>, <<"1">>}
BadDocs == {<<"{">>, <<"o", "k">>}

\* a document inside a code fence: Fence tag newline doc newline Fence
Wrap(tag, doc) == Fence \o tag \o <<"\n">> \o doc \o <<"\n">> \o Fence

Bodies ==
    ValidDocs \cup BadDocs
    \cup {doc \o <<"\n">> : doc \in ValidDocs}
    \cup {Wrap(tag, doc) : tag \in Tags, doc \in ValidDocs \cup BadDocs}

\* what model.generate_content returns: a response whose .text accessor
\* yields the body, or raises because the response carries no text part
Responses ==
    {[k |-> "response", has_text |-> TRUE, text |-> b] : b \in Bodies}
    \cup {[k |-> "response", has_text |-> FALSE, text |-> <<>>]}

\* ----------------------------------------------------------- credentials
\* the value config.ini holds for a credential: a working one, the
\* placeholder of the sample file, or nothing
CredentialKinds == {"valid", "placeholder", "empty"}
Collaborators == {"REDDIT", "YOUTUBE", "GEMINI"}

\* config with the credential of one section set to kind
ConfigWith(section, kind) ==
    [c0 \in Collaborators |-> IF c0 = section THEN kind ELSE "valid"]

\* ------------------------------------------------------------------- Init
Init ==
    /\ pc = "idle"
    /\ fn = "none"
    /\ items = <<>>
    /\ i = 0
    /\ prompt_lines = <<>>
    /\ requests = <<>>
    /\ analysis_result = None
    /\ ret = None
    /\ log = <<>>
    /\ is_json_output = FALSE
    /\ response = None
    /\ sent = 0
    /\ files = <<>>
    /\ subreddits = <<>>
    /\ reddit = None
    /\ posts = <<>>
    /\ problem_posts = <<>>
    /\ problem_density = None
    /\ deep_dive = FALSE
    /\ context = None
    /\ output_file_base = None
    /\ videos = <<>>
    /\ channel_details_map = None
    /\ distribution = <<>>
    /\ report = <<>>
    /\ videos_to_analyze = <<>>
    /\ comments = <<>>
    /\ c = 0
    /\ fetched = <<>>
    /\ analysis_results = <<>>
    /\ all_questions = <<>>
    /\ table = <<>>
    /\ dir = "asc"
    /\ switchcount = 0
    /\ columnIndex = 0
    /\ keywordFilter = <<>>
    /\ categoryFilter = <<>>
    /\ sort_by = "newest"
    /\ video_limit = 0
    /\ uploads = <<>>
    /\ video_ids = <<>>
    /\ next_page_token = None
    /\ output_file = None
    /\ config = [c0 \in Collaborators |-> "valid"]
    /\ contacted = {}

\* ---------------------------------------------- utils.get_gemini_analysis
get_gemini_analysis_call ==
    /\ pc = "idle"
    /\ fn' = "get_gemini_analysis"
    /\ \E flag \in BOOLEAN : is_json_output' = flag
    /\ \E kind \in CredentialKinds : config' = ConfigWith("GEMINI", kind)
    /\ pc' = "configure"
    /\ UNCHANGED <<batchVars, requests, ret, log, response, sent, contacted>>
    /\ UNCHANGED outsideGemini

\* genai.configure and genai.GenerativeModel: either may raise
get_gemini_analysis_configure ==
    /\ pc = "configure"
    /\ \E ok \in BOOLEAN :
          IF ok
          THEN /\ pc' = "generate"
               /\ UNCHANGED <<ret, log>>
          ELSE /\ log' = Append(log, "ERROR: Failed to configure Gemini API")
               /\ ret' = None
               /\ pc' = "done"
    /\ UNCHANGED <<fn, batchVars, requests, gemVars>>
    /\ UNCHANGED outsideUtils

\* a handler that goes back to the call that failed
RetryCall(position) == position

\* where the except clause of the call leaves the function: return None
AfterCallError(position) == "done"

\* response = model.generate_content(prompt): a response, or an exception
\* that the handler reports with response still None. Nothing looks at the
\* key before the call: the service answers a working key only, and a client
\* without a key may fail before anything is sent.
get_gemini_analysis_generate ==
    /\ pc = "generate"
    /\ sent' = sent + 1
    /\ \/ /\ config["GEMINI"] = "valid"
          /\ \E r \in Responses : response' = r
          /\ contacted' = contacted \cup {"GEMINI"}
          /\ pc' = "read"
          /\ UNCHANGED <<ret, log>>
       \/ /\ log' = Append(log, "ERROR: Gemini API call or parsing")
          /\ \/ contacted' = contacted \cup {"GEMINI"}
             \/ config["GEMINI"] = "empty" /\ contacted' = contacted
          /\ ret' = None
          /\ pc' = AfterCallError(pc)
          /\ UNCHANGED response
    /\ UNCHANGED <<fn, batchVars, requests, is_json_output, config>>
    /\ UNCHANGED outsideGemini

\* is_json_output: json.loads(cleaned_response), or the handler
get_gemini_analysis_json ==
    /\ pc = "read"
    /\ is_json_output
    /\ response.has_text
    /\ LET decoded == JsonLoads(CleanResponse(response.text)) IN
       IF decoded = JSONDecodeError
       THEN /\ log' = log \o <<"ERROR: Gemini API call or parsing",
                               "Gemini raw response was">>
            /\ ret' = None
       ELSE /\ ret' = decoded
            /\ log' = log
    /\ pc' = "done"
    /\ UNCHANGED <<fn, batchVars, requests, gemVars>>
    /\ UNCHANGED outsideUtils

\* not is_json_output: return response.text.strip()
get_gemini_analysis_text ==
    /\ pc = "read"
    /\ ~is_json_output
    /\ response.has_text
    /\ ret' = [k |-> "str", s |-> Strip(response.text)]
    /\ pc' = "done"
    /\ UNCHANGED <<fn, batchVars, requests, log, gemVars>>
    /\ UNCHANGED outsideUtils

\* response.text raises inside the try; the handler prints the error, finds
\* response set, and evaluates response.text again for the second message
get_gemini_analysis_no_text ==
    /\ pc = "read"
    /\ ~response.has_text
    /\ log' = Append(log, "ERROR: Gemini API call or parsing")
    /\ pc' = "raised"
    /\ UNCHANGED <<fn, batchVars, requests, ret, gemVars>>
    /\ UNCHANGED outsideUtils

\* What a caller of get_gemini_analysis can see: the no-result value, a
\* returned value, or the exception of get_gemini_analysis_no_text.
GeminiOutcomes(values) == {None, Raise} \cup values

\* an assignment that leaves the item nothing but its id
AssignIdOnly(item, n) == [id |-> n]

\* comment['id'] = i, post['id'] = i
AssignId(item, n) == [item EXCEPT !.id = n]

\* ------------------------------------------- utils.analyze_comments_batch
analyze_comments_batch_call ==
    /\ pc = "idle"
    /\ \E batch \in SeqsUpTo(CommentItems, MaxItems) : items' = batch
    /\ fn' = "analyze_comments_batch"
    /\ pc' = "enumerate"
    /\ UNCHANGED <<i, prompt_lines, requests, analysis_result, ret, log,
                   gemVars>>
    /\ UNCHANGED outsideUtils

\* a batcher that numbers the prompt from 1
CommentLineFromOne(n, comment) == [num |-> n + 1, text |-> comment.text]

\* one turn of: for i, comment in enumerate(comments)
CommentLine(n, comment) == [num |-> n, text |-> comment.text]

analyze_comments_batch_enumerate ==
    /\ pc = "enumerate"
    /\ fn = "analyze_comments_batch"
    /\ i < Len(items)
    /\ items' = [items EXCEPT ![i + 1] = AssignId(@, i)]
    /\ prompt_lines' = Append(prompt_lines, CommentLine(i, items[i + 1]))
    /\ i' = i + 1
    /\ UNCHANGED <<pc, fn, requests, analysis_result, ret, log, gemVars>>
    /\ UNCHANGED outsideUtils

\* analysis_result = get_gemini_analysis(gemini_api_key, prompt, True)
BatchRequest(values) ==
    /\ pc = "enumerate"
    /\ i = Len(items)
    /\ requests' = Append(requests, [by |-> fn, lines |-> prompt_lines])
    /\ \E out \in GeminiOutcomes(values) :
          /\ analysis_result' = out
          /\ pc' = IF out = Raise THEN "raised" ELSE "merge"
    /\ UNCHANGED <<fn, items, i, prompt_lines, ret, log, gemVars>>
    /\ UNCHANGED outsideUtils

analyze_comments_batch_request ==
    /\ fn = "analyze_comments_batch"
    /\ BatchRequest(CommentResponses)

\* {result['id']: result for result in analysis_result['results']}
LastWith(rs, key) ==
    rs[CHOOSE j \in 1..Len(rs) :
          /\ rs[j].id = key
          /\ \A m \in (j + 1)..Len(rs) : rs[m].id # key]

\* a remap that answers an empty array like a missing one
RemapOrNone(rs) ==
    IF rs = <<>> THEN None
    ELSE [k |-> "dict",
          keys |-> {rs[j].id : j \in 1..Len(rs)},
          at |-> [key \in {rs[j].id : j \in 1..Len(rs)} |-> LastWith(rs, key)]]

RemapResults(rs) ==
    [k |-> "dict",
     keys |-> {rs[j].id : j \in 1..Len(rs)},
     at |-> [key \in {rs[j].id : j \in 1..Len(rs)} |-> LastWith(rs, key)]]

\* key in analysis_result: a key of a dict; no element of the arrays the
\* service can send is the key itself
HasKey(v, key) == v.k = "dict" /\ key \in v.keys

\* the test raises TypeError on a number, and so does result['id'] (as
\* KeyError) on an entry without 'id'
analyze_comments_batch_merge ==
    /\ pc = "merge"
    /\ fn = "analyze_comments_batch"
    /\ IF Truthy(analysis_result) /\ analysis_result.k = "int"
       THEN /\ pc' = "raised"
            /\ UNCHANGED <<ret, log>>
       ELSE IF Truthy(analysis_result) /\ HasKey(analysis_result, "results")
       THEN IF \E j \in 1..Len(analysis_result.results) :
                  analysis_result.results[j].id = NoId
            THEN /\ pc' = "raised"
                 /\ UNCHANGED <<ret, log>>
            ELSE /\ ret' = RemapResults(analysis_result.results)
                 /\ log' = log
                 /\ pc' = "done"
       ELSE /\ ret' = None
            /\ log' = Append(log, "ERROR: Batch comment analysis failed")
            /\ pc' = "done"
    /\ UNCHANGED <<fn, items, i, prompt_lines, requests, analysis_result,
                   gemVars>>
    /\ UNCHANGED outsideUtils

\* ----------------------------------------- utils.analyze_thumbnails_style
\* what a thumbnail URL leads to: an image, a page, nothing
UrlKinds == {"image", "page", "unreachable"}

ThumbnailError == [k |-> "str", s |-> <<"Error: AI analysis of thumbnails failed.">>]

\* response.text of the multimodal call, returned as it is
ThumbnailTexts ==
    {[k |-> "str", s |-> t] : t \in {<<>>, <<"a", "d", "v">>, <<" ", "a">>}}

\* items is image_urls, prompt_lines is image_parts
analyze_thumbnails_style_call ==
    /\ pc = "idle"
    /\ fn' = "analyze_thumbnails_style"
    /\ \E urls \in SeqsUpTo(UrlKinds, MaxItems) : items' = urls
    /\ log' = Append(log, "Analyzing thumbnails for actionable advice")
    /\ pc' = "download"
    /\ UNCHANGED <<i, prompt_lines, requests, analysis_result, ret, gemVars>>
    /\ UNCHANGED outsideUtils

\* one turn of: for url in image_urls
analyze_thumbnails_style_download ==
    /\ pc = "download"
    /\ i < Len(items)
    /\ CASE items[i + 1] = "image" ->
              /\ prompt_lines' = Append(prompt_lines,
                                        [mime_type |-> "image/jpeg", url |-> i])
              /\ log' = log
           [] items[i + 1] = "page" ->
              /\ log' = Append(log, "Warning: Skipped URL with non-image mime_type")
              /\ UNCHANGED prompt_lines
           [] OTHER ->
              /\ log' = Append(log, "Warning: Could not download or process image")
              /\ UNCHANGED prompt_lines
    /\ i' = i + 1
    /\ UNCHANGED <<pc, fn, items, requests, analysis_result, ret, gemVars>>
    /\ UNCHANGED outsideUtils

\* if not image_parts: print, return None
analyze_thumbnails_style_no_images ==
    /\ pc = "download"
    /\ i = Len(items)
    /\ prompt_lines = <<>>
    /\ log' = Append(log, "ERROR: No valid images could be downloaded")
    /\ ret' = None
    /\ pc' = "done"
    /\ UNCHANGED <<fn, batchVars, requests, gemVars>>
    /\ UNCHANGED outsideUtils

\* configure, generate_content(prompt_parts), return response.text; any
\* exception is reported and the function returns its error sentence
analyze_thumbnails_style_request ==
    /\ pc = "download"
    /\ i = Len(items)
    /\ prompt_lines # <<>>
    /\ requests' = Append(requests, [by |-> fn, lines |-> prompt_lines])
    /\ \/ /\ \E text \in ThumbnailTexts : ret' = text
          /\ log' = log
          /\ contacted' = contacted \cup {"GEMINI"}
       \/ /\ log' = Append(log, "ERROR: Gemini multimodal API call")
          /\ ret' = ThumbnailError
          /\ \E reached \in BOOLEAN :
                contacted' = IF reached THEN contacted \cup {"GEMINI"}
                             ELSE contacted
    /\ pc' = "done"
    /\ UNCHANGED <<fn, batchVars, gemVars, config>>
    /\ UNCHANGED outsideGemini

\* ---------------------------------------------- utils.analyze_posts_batch
analyze_posts_batch_call ==
    /\ pc = "idle"
    /\ \E batch \in SeqsUpTo(PostItems, MaxItems) : items' = batch
    /\ fn' = "analyze_posts_batch"
    /\ pc' = "enumerate"
    /\ UNCHANGED <<i, prompt_lines, requests, analysis_result, ret, log,
                   gemVars>>
    /\ UNCHANGED outsideUtils

\* one turn of: for i, post in enumerate(posts)
PostLine(n, post) == [num |-> n, title |-> post.title, snippet |-> post.snippet]

analyze_posts_batch_enumerate ==
    /\ pc = "enumerate"
    /\ fn = "analyze_posts_batch"
    /\ i < Len(items)
    /\ items' = [items EXCEPT ![i + 1] = AssignId(@, i)]
    /\ prompt_lines' = Append(prompt_lines, PostLine(i, items[i + 1]))
    /\ i' = i + 1
    /\ UNCHANGED <<pc, fn, requests, analysis_result, ret, log, gemVars>>
    /\ UNCHANGED outsideUtils

analyze_posts_batch_request ==
    /\ fn = "analyze_posts_batch"
    /\ BatchRequest(PostResponses)

\* set(analysis_result['problem_post_ids'])
IdSet(ids) == [k |-> "set", keys |-> {ids[j] : j \in 1..Len(ids)}]

analyze_posts_batch_merge ==
    /\ pc = "merge"
    /\ fn = "analyze_posts_batch"
    /\ IF Truthy(analysis_result) /\ analysis_result.k = "int"
       THEN /\ pc' = "raised"
            /\ UNCHANGED <<ret, log>>
       ELSE IF /\ Truthy(analysis_result)
               /\ HasKey(analysis_result, "problem_post_ids")
               /\ analysis_result.is_list
       THEN IF analysis_result.hashable
            THEN /\ ret' = IdSet(analysis_result.ids)
                 /\ log' = log
                 /\ pc' = "done"
            ELSE \* set() of an unhashable element raises TypeError
                 /\ pc' = "raised"
                 /\ UNCHANGED <<ret, log>>
       ELSE /\ ret' = None
            /\ log' = Append(log, "ERROR: Batch post analysis failed")
            /\ pc' = "done"
    /\ UNCHANGED <<fn, items, i, prompt_lines, requests, analysis_result,
                   gemVars>>
    /\ UNCHANGED outsideUtils

\* ------------------------------------------------------ reddit_analyzer
\* everything but the variables of run_reddit_analysis and its callees
insideUtils == <<items, prompt_lines, ret, gemVars, extVars, ytVars>>
outsideReddit == <<insideUtils, envVars>>

TitleProblem == <<"P", "r", "o", "b", "l", "e", "m">>
TitlePlain == <<"o", "k">>
TextIssue == <<"I", "S", "S", "U", "E", "s">>
WordProblem == <<"p", "r", "o", "b", "l", "e", "m">>
WordIssue == <<"i", "s", "s", "u", "e">>

\* what subreddit.top() can list: title and selftext of a submission
PostKinds ==
    {[title |-> TitleProblem, selftext |-> <<>>],
     [title |-> TitlePlain, selftext |-> TextIssue],
     [title |-> TitlePlain, selftext |-> <<>>]}

\* the submission at position no of the listing of subreddit name
Submission(name, no, kind) ==
    [subreddit |-> name, no |-> no, title |-> kind.title,
     selftext |-> kind.selftext]

\* "problem" in post.title.lower() or "issue" in post.selftext.lower()
IsProblematic(post) ==
    \/ Contains(Lower(post.title), WordProblem)
    \/ Contains(Lower(post.selftext), WordIssue)

\* the output_file_base a caller can pass: a path, the empty string, None
OutputBases ==
    {[k |-> "str", s |-> <<"o", "u", "t">>], [k |-> "str", s |-> <<>>], None}

run_reddit_analysis_call ==
    /\ pc = "idle"
    /\ fn' = "run_reddit_analysis"
    /\ \E n \in 0..MaxSubs : subreddits' = [j \in 1..n |-> j]
    /\ \E dd \in {<<FALSE, None>>, <<TRUE, None>>,
                  <<TRUE, [k |-> "str", s |-> <<"c", "t", "x">>]>>} :
          /\ deep_dive' = dd[1]
          /\ context' = dd[2]
    /\ \E base \in OutputBases : output_file_base' = base
    /\ \E kind \in CredentialKinds : config' = ConfigWith("REDDIT", kind)
    /\ pc' = "init_client"
    /\ UNCHANGED <<i, analysis_result, requests, log, files, reddit, posts,
                   problem_posts, problem_density, insideUtils, contacted>>

\* _initialize_reddit_client: praw.Reddit(...) and reddit.user.me() look at
\* no credential value. The client, or None after a PrawcoreException of a
\* request; any other exception (an option missing from config.ini) is not
\* caught.
initialize_reddit_client ==
    /\ pc = "init_client"
    /\ \/ /\ reddit' = [k |-> "client"]
          /\ log' = Append(log, "[Reddit] Connection successful")
          /\ pc' = "get_posts"
          /\ UNCHANGED contacted
       \/ /\ reddit' = None
          /\ log' = Append(log, "ERROR: Failed to connect to Reddit")
          /\ contacted' = contacted \cup {"REDDIT"}
          /\ pc' = "get_posts"
       \/ /\ config["REDDIT"] = "empty"
          /\ pc' = "raised"
          /\ UNCHANGED <<reddit, log, contacted>>
    /\ UNCHANGED <<fn, i, analysis_result, requests, files, subreddits, posts,
                   problem_posts, problem_density, deep_dive, context,
                   output_file_base, insideUtils, config>>

\* get_reddit_posts: if not reddit: return []
get_reddit_posts_no_client ==
    /\ pc = "get_posts"
    /\ reddit = None
    /\ posts' = <<>>
    /\ pc' = "check_posts"
    /\ UNCHANGED <<fn, i, analysis_result, requests, log, files, subreddits,
                   reddit, problem_posts, problem_density, deep_dive, context,
                   output_file_base, outsideReddit>>

\* a handler that throws away what the earlier subreddits gave
FetchErrorDropsAll(all_posts) == <<>>

\* except PrawcoreException: print(...); all_posts is left as it was
AfterFetchError(all_posts) == all_posts

\* one turn of: for subreddit_name in subreddits. The listing is a request
\* to Reddit, which serves a working credential only.
get_reddit_posts_fetch ==
    /\ pc = "get_posts"
    /\ reddit # None
    /\ i < Len(subreddits)
    /\ \/ /\ config["REDDIT"] = "valid"
          /\ \E listing \in SeqsUpTo(PostKinds, MaxPosts - Len(posts)) :
                posts' = posts \o
                    [j \in 1..Len(listing) |->
                        Submission(subreddits[i + 1], j, listing[j])]
          /\ log' = log
       \/ /\ log' = Append(log, "ERROR: Could not fetch posts")
          /\ posts' = AfterFetchError(posts)
    /\ contacted' = contacted \cup {"REDDIT"}
    /\ i' = i + 1
    /\ UNCHANGED <<pc, fn, analysis_result, requests, files, subreddits,
                   reddit, problem_posts, problem_density, deep_dive, context,
                   output_file_base, insideUtils, config>>

get_reddit_posts_return ==
    /\ pc = "get_posts"
    /\ reddit # None
    /\ i = Len(subreddits)
    /\ log' = Append(log, "[Reddit] Fetched a total of posts")
    /\ pc' = "check_posts"
    /\ UNCHANGED <<fn, i, analysis_result, requests, files, redditVars,
                   outsideReddit>>

\* if not posts: print, return
run_reddit_analysis_no_posts ==
    /\ pc = "check_posts"
    /\ fn = "run_reddit_analysis"
    /\ posts = <<>>
    /\ log' = Append(log, "No posts found. Exiting Reddit analysis.")
    /\ pc' = "done"
    /\ UNCHANGED <<fn, i, analysis_result, requests, files, redditVars,
                   outsideReddit>>

\* the quotient a / b rounded to the nearest integer, ties to the even one:
\* what the format {:.2f} prints of a float, in hundredths
RoundHalfEven(a, b) ==
    LET q == a \div b
        r == a % b
    IN  IF 2 * r < b THEN q
        ELSE IF 2 * r > b THEN q + 1
        ELSE IF q % 2 = 0 THEN q ELSE q + 1

\* a density that is a plain ratio, not a percentage
ProblemDensityRatio(n_problem, n_posts) ==
    [k |-> "percent",
     hundredths |-> IF n_posts # 0
                    THEN RoundHalfEven(n_problem * 100, n_posts)
                    ELSE 0]

\* (len(problem_posts) / len(posts) * 100) if posts else 0, as {:.2f}
ProblemDensity(n_problem, n_posts) ==
    [k |-> "percent",
     hundredths |-> IF n_posts # 0
                    THEN RoundHalfEven(n_problem * 10000, n_posts)
                    ELSE 0]

run_reddit_analysis_density ==
    /\ pc = "check_posts"
    /\ fn = "run_reddit_analysis"
    /\ posts # <<>>
    /\ problem_posts' = SelectSeq(posts, IsProblematic)
    /\ problem_density' =
          ProblemDensity(Len(SelectSeq(posts, IsProblematic)), Len(posts))
    /\ log' = Append(log, "[Reddit] Problem Density")
    /\ pc' = "save_csv"
    /\ UNCHANGED <<fn, i, analysis_result, requests, files, subreddits,
                   reddit, posts, deep_dive, context, output_file_base,
                   outsideReddit>>

\* ---------------------------------------------------------- report files
\* A file is its path and the lines that reached it; complete is false when
\* the write failed part-way and left the file truncated.
ExtCsv == <<".", "c", "s", "v">>
ExtHtml == <<".", "h", "t", "m", "l">>

RedditHeader ==
    [header |-> <<"subreddit", "title", "score", "num_comments", "url",
                  "is_problematic", "body_snippet">>]

snippet_length == 500

\* the row writer.writerow() gets for one post
RedditRow(post) ==
    [subreddit |-> post.subreddit,
     title |-> post.title,
     url |-> <<post.subreddit, post.no>>,
     is_problematic |-> IsProblematic(post),
     body_snippet |-> IF post.selftext # <<>>
                      THEN Prefix(post.selftext, snippet_length)
                      ELSE <<>>]

RedditRows(ps) == [j \in 1..Len(ps) |-> RedditRow(ps[j])]

\* open(path, 'w') and the writes under it: all lines reach the file, or
\* open fails (no file), or a write fails after kept lines
WriteOutcomes(path, lines) ==
    {[made |-> TRUE, file |-> [path |-> path, lines |-> lines,
                               complete |-> TRUE]]}
    \cup {[made |-> FALSE, file |-> None]}
    \cup {[made |-> TRUE,
           file |-> [path |-> path, lines |-> SubSeq(lines, 1, kept),
                     complete |-> FALSE]] : kept \in 0..(Len(lines) - 1)}

\* output_csv_file = output_file_base + ".csv" raises TypeError when the
\* base is None: nothing tests the base before it is used
\* a handler that lets the exception of a failed write go on
WriteErrorEscapes(w, next) ==
    IF w.made /\ w.file.complete THEN next ELSE "raised"

\* where a write goes on: its except clause prints the error, and the
\* statement after the try is next whether the write failed or not
AfterWrite(w, next) == next

run_reddit_analysis_save_csv ==
    /\ pc = "save_csv"
    /\ fn = "run_reddit_analysis"
    /\ IF output_file_base = None
       THEN /\ pc' = "raised"
            /\ UNCHANGED <<files, log>>
       ELSE /\ \E w \in WriteOutcomes(output_file_base.s \o ExtCsv,
                                      <<RedditHeader>> \o RedditRows(posts)) :
                  /\ files' = IF w.made THEN Append(files, w.file) ELSE files
                  /\ log' = Append(log,
                               IF w.made /\ w.file.complete
                               THEN "[Reddit] Analysis results saved successfully"
                               ELSE "ERROR: Could not write CSV file")
                  /\ pc' = AfterWrite(w, "deep_dive")
    /\ UNCHANGED <<fn, i, analysis_result, requests, redditVars,
                   outsideReddit>>

\* ------------------------------------- reddit_analyzer.perform_deep_dive
ScoreMarker == "Pain-Point-Concentration-Score: "
Digits == {"0", "1", "7"}

RECURSIVE DigitRun(_)
\* the longest run of digits s starts with
DigitRun(s) ==
    IF s # <<>> /\ Head(s) \in Digits
    THEN <<Head(s)>> \o DigitRun(Tail(s))
    ELSE <<>>

\* re.search(r'Pain-Point-Concentration-Score: (\d+)/10', text) at offset j:
\* the marker (one element of the text), one or more digits, then /10
MatchesAt(text, j) ==
    /\ text[j] = ScoreMarker
    /\ LET rest == SubSeq(text, j + 1, Len(text))
           run == DigitRun(rest)
       IN  \E n \in 1..Len(run) :
              SubSeq(rest, n + 1, n + 3) = <<"/", "1", "0">>

\* the digits before /10 in the leftmost match: the longest such prefix of
\* the run of digits, as the greedy \d+ finds it
MatchGroup(text, j) ==
    LET rest == SubSeq(text, j + 1, Len(text))
        run == DigitRun(rest)
        n == CHOOSE m \in 1..Len(run) :
                /\ SubSeq(rest, m + 1, m + 3) = <<"/", "1", "0">>
                /\ \A m2 \in (m + 1)..Len(run) :
                      SubSeq(rest, m2 + 1, m2 + 3) # <<"/", "1", "0">>
    IN  SubSeq(run, 1, n)

\* concentration_score: group(1) of the match, or "N/A"
ScoreOf(text) ==
    IF \E j \in 1..Len(text) : MatchesAt(text, j)
    THEN [k |-> "str",
          s |-> MatchGroup(text, CHOOSE j \in 1..Len(text) :
                                    /\ MatchesAt(text, j)
                                    /\ \A j2 \in 1..(j - 1) :
                                          ~MatchesAt(text, j2))]
    ELSE [k |-> "str", s |-> <<"N", "/", "A">>]

\* free-text answers of the service, stripped
DeepDiveTexts ==
    {[k |-> "str", s |-> t] :
        t \in {<<>>,
               <<"r", "e", "p">>,
               <<"r", "e", "p", "\n", ScoreMarker, "7", "/", "1", "0">>,
               <<"r", ScoreMarker, "/", "1", "0">>}}

snippet_limit == 400

\* f"Title: {post.title}\nBody Snippet: {post.selftext[:400]}"
PostSnippet(post) ==
    [title |-> post.title, body |-> Prefix(post.selftext, snippet_limit)]

PostSnippets(ps) == [j \in 1..Len(ps) |-> PostSnippet(ps[j])]

\* where perform_deep_dive returns to
AfterDeepDive == IF fn = "perform_deep_dive" THEN "done" ELSE "dd_returned"

perform_deep_dive_call ==
    /\ pc = "idle"
    /\ fn' = "perform_deep_dive"
    /\ \E listing \in SeqsUpTo(PostKinds, MaxPosts) :
          problem_posts' =
              [j \in 1..Len(listing) |-> Submission(1, j, listing[j])]
    /\ context' = [k |-> "str", s |-> <<"c", "t", "x">>]
    /\ pc' = "dd_snippets"
    /\ UNCHANGED <<i, analysis_result, requests, log, files, subreddits,
                   reddit, posts, problem_density, deep_dive,
                   output_file_base, outsideReddit>>

\* if not post_snippets: return "N/A", None
perform_deep_dive_empty ==
    /\ pc = "dd_snippets"
    /\ PostSnippets(problem_posts) = <<>>
    /\ log' = Append(log, "No problem posts to analyze for deep-dive")
    /\ ret' = [k |-> "tuple", score |-> [k |-> "str", s |-> <<"N", "/", "A">>],
               text |-> None]
    /\ pc' = AfterDeepDive
    /\ UNCHANGED <<fn, i, analysis_result, requests, files, redditVars,
                   items, prompt_lines, gemVars, extVars, ytVars,
                   envVars>>

\* analysis_result = utils.get_gemini_analysis(gemini_api_key, prompt), then
\* re.search(pattern, analysis_result), which raises TypeError on None
perform_deep_dive_request ==
    /\ pc = "dd_snippets"
    /\ PostSnippets(problem_posts) # <<>>
    /\ requests' = Append(requests, [by |-> "perform_deep_dive",
                                     lines |-> PostSnippets(problem_posts)])
    /\ \E out \in GeminiOutcomes(DeepDiveTexts) :
          /\ analysis_result' = out
          /\ IF out \in {None, Raise}
             THEN /\ pc' = "raised"
                  /\ ret' = ret
             ELSE /\ pc' = AfterDeepDive
                  /\ ret' = [k |-> "tuple", score |-> ScoreOf(out.s),
                             text |-> out]
    /\ UNCHANGED <<fn, i, log, files, redditVars, items, prompt_lines,
                   gemVars, extVars, ytVars,
                   envVars>>

\* ---------------------------- run_reddit_analysis, the deep-dive section
run_reddit_analysis_no_deep_dive ==
    /\ pc = "deep_dive"
    /\ ~deep_dive
    /\ pc' = "done"
    /\ UNCHANGED <<fn, i, analysis_result, requests, log, files, redditVars,
                   outsideReddit>>

\* if not context: print, return
run_reddit_analysis_no_context ==
    /\ pc = "deep_dive"
    /\ deep_dive
    /\ ~Truthy(context)
    /\ log' = Append(log, "ERROR: --context is required")
    /\ pc' = "done"
    /\ UNCHANGED <<fn, i, analysis_result, requests, files, redditVars,
                   outsideReddit>>

run_reddit_analysis_no_problem_posts ==
    /\ pc = "deep_dive"
    /\ deep_dive
    /\ Truthy(context)
    /\ problem_posts = <<>>
    /\ log' = Append(log, "No problem posts found, skipping deep-dive")
    /\ pc' = "done"
    /\ UNCHANGED <<fn, i, analysis_result, requests, files, redditVars,
                   outsideReddit>>

\* perform_deep_dive(config, problem_posts, context)
run_reddit_analysis_deep_dive ==
    /\ pc = "deep_dive"
    /\ deep_dive
    /\ Truthy(context)
    /\ problem_posts # <<>>
    /\ log' = Append(log, "[Reddit] Starting deep-dive")
    /\ pc' = "dd_snippets"
    /\ UNCHANGED <<fn, i, analysis_result, requests, files, redditVars,
                   outsideReddit>>

ExtDeepDive == <<"_", "d", "e", "e", "p", "_", "d", "i", "v", "e", ".", "m", "d">>

\* if deep_dive_report_text: _generate_and_save_deep_dive_report(...)
run_reddit_analysis_save_report ==
    /\ pc = "dd_returned"
    /\ IF Truthy(ret.text)
       THEN \E w \in WriteOutcomes(
                        output_file_base.s \o ExtDeepDive,
                        <<[context |-> context, density |-> problem_density,
                           score |-> ret.score],
                          [report |-> ret.text]>>) :
               /\ files' = IF w.made THEN Append(files, w.file) ELSE files
               /\ log' = Append(log,
                            IF w.made /\ w.file.complete
                            THEN "[Reddit] Report saved successfully"
                            ELSE "ERROR: Could not write deep-dive report")
               /\ pc' = AfterWrite(w, "done")
       ELSE /\ pc' = "done"
            /\ UNCHANGED <<files, log>>
    /\ UNCHANGED <<fn, i, analysis_result, requests, redditVars,
                   outsideReddit>>

\* ----------------------------------------------------- external_analyzer
besideExternal ==
    <<items, prompt_lines, ret, gemVars, files, redditVars, ytVars>>
outsideExternal == <<besideExternal, envVars>>

\* (now - published_at).days of a search result, around every boundary
AgeSamples == {-1, 0, 30, 31, 180, 181, 365, 366}
\* subscriberCount of a channel, around every boundary
SubsSamples == {0, 9999, 10000, 99999, 100000, 999999, 1000000}
Channels == {"c1", "c2"}

\* a dict in insertion order: the labels with a count of 0 each
NewDistribution(labels) ==
    [b \in 1..Len(labels) |-> [label |-> labels[b], count |-> 0]]

\* distribution[label] += 1, for the label at position b
CountInto(dist, b) == [dist EXCEPT ![b].count = @ + 1]

AgeLabels == <<"Under 1 month", "1-6 months", "6-12 months", "Over 1 year">>
SubsLabels == <<"< 10k subs", "10k - 100k subs", "100k - 1M subs", "> 1M subs">>

\* a chain whose second test starts one day late
AgeBucketGap(age_days) ==
    IF age_days <= 30 THEN 1
    ELSE IF 32 <= age_days /\ age_days <= 180 THEN 2
    ELSE IF 181 <= age_days /\ age_days <= 365 THEN 3
    ELSE 4

\* the if / elif chain over age_days
AgeBucket(age_days) ==
    IF age_days <= 30 THEN 1
    ELSE IF 31 <= age_days /\ age_days <= 180 THEN 2
    ELSE IF 181 <= age_days /\ age_days <= 365 THEN 3
    ELSE 4

\* the if / elif chain over subs
SubsBucket(subs) ==
    IF subs < 10000 THEN 1
    ELSE IF 10000 <= subs /\ subs < 100000 THEN 2
    ELSE IF 100000 <= subs /\ subs < 1000000 THEN 3
    ELSE 4

\* a report that leaves out the buckets nothing fell into
NonEmptyLines(dist) ==
    LET Counted(line) == line.count > 0 IN SelectSeq(dist, Counted)

\* for category, count in distribution.items(): one line each, in order
DistributionLines(dist) == dist

\* ------------------------------- external_analyzer.analyze_content_freshness
analyze_content_freshness_call ==
    /\ pc = "idle"
    /\ fn' = "analyze_content_freshness"
    /\ \E vs \in SeqsUpTo([age_days : AgeSamples], MaxVideos) : videos' = vs
    /\ pc' = "check_videos"
    /\ UNCHANGED <<i, analysis_result, requests, log, channel_details_map,
                   distribution, report, outsideExternal>>

\* if not videos: print, return (both distributions)
analyze_no_videos ==
    /\ pc = "check_videos"
    /\ videos = <<>>
    /\ log' = Append(log, "[-] No videos to analyze.")
    /\ pc' = "done"
    /\ UNCHANGED <<fn, i, analysis_result, requests, extVars,
                   outsideExternal>>

analyze_content_freshness_start ==
    /\ pc = "check_videos"
    /\ fn = "analyze_content_freshness"
    /\ videos # <<>>
    /\ distribution' = NewDistribution(AgeLabels)
    /\ pc' = "count"
    /\ UNCHANGED <<fn, i, analysis_result, requests, log, videos,
                   channel_details_map, report, outsideExternal>>

\* one turn of: for video in videos
analyze_content_freshness_count ==
    /\ pc = "count"
    /\ fn = "analyze_content_freshness"
    /\ i < Len(videos)
    /\ distribution' = CountInto(distribution, AgeBucket(videos[i + 1].age_days))
    /\ i' = i + 1
    /\ UNCHANGED <<pc, fn, analysis_result, requests, log, videos,
                   channel_details_map, report, outsideExternal>>

\* the distribution is printed and sent; the summary is printed when the
\* service gave one
analyze_content_freshness_report ==
    /\ pc = "count"
    /\ fn = "analyze_content_freshness"
    /\ i = Len(videos)
    /\ report' = DistributionLines(distribution)
    /\ requests' = Append(requests, [by |-> fn,
                                     lines |-> DistributionLines(distribution)])
    /\ \E out \in GeminiOutcomes({[k |-> "str", s |-> t] :
                                     t \in {<<>>, <<"o", "k">>}}) :
          /\ analysis_result' = out
          /\ IF out = Raise
             THEN /\ pc' = "raised"
                  /\ log' = Append(log, "[+] Video Age Distribution:")
             ELSE /\ pc' = "done"
                  /\ log' = log \o
                        <<"[+] Video Age Distribution:",
                          IF Truthy(out)
                          THEN "[+] Freshness Analysis Summary:"
                          ELSE "[-] Could not get Freshness Analysis from AI.">>
    /\ UNCHANGED <<fn, i, videos, channel_details_map, distribution,
                   outsideExternal>>

\* ------------------------------- external_analyzer.analyze_channel_authority
analyze_channel_authority_call ==
    /\ pc = "idle"
    /\ fn' = "analyze_channel_authority"
    /\ \E vs \in SeqsUpTo([channelId : Channels], MaxVideos) : videos' = vs
    /\ pc' = "check_videos"
    /\ UNCHANGED <<i, analysis_result, requests, log, channel_details_map,
                   distribution, report, outsideExternal>>

\* channels().list(...).execute() and the map built from its items; an
\* exception anywhere under the try is reported by the handler
analyze_channel_authority_fetch ==
    /\ pc = "check_videos"
    /\ fn = "analyze_channel_authority"
    /\ videos # <<>>
    /\ contacted' = contacted \cup {"YOUTUBE"}
    /\ \/ /\ \E known \in SUBSET Channels :
                \E m \in [known -> SubsSamples] :
                    channel_details_map' = [k |-> "dict", keys |-> known,
                                            subs |-> m]
          /\ distribution' = NewDistribution(SubsLabels)
          /\ log' = Append(log, "[+] Fetching subscriber counts")
          /\ pc' = "count"
       \/ /\ log' = Append(log, "ERROR: Failed to analyze channel authority")
          /\ pc' = "done"
          /\ UNCHANGED <<channel_details_map, distribution>>
    /\ UNCHANGED <<fn, i, analysis_result, requests, videos, report,
                   besideExternal, config>>

\* channel_details_map.get(channel_id, {'subs': 0})['subs']
SubsOf(map, channel_id) ==
    IF channel_id \in map.keys THEN map.subs[channel_id] ELSE 0

analyze_channel_authority_count ==
    /\ pc = "count"
    /\ fn = "analyze_channel_authority"
    /\ i < Len(videos)
    /\ distribution' =
          CountInto(distribution,
                    SubsBucket(SubsOf(channel_details_map,
                                      videos[i + 1].channelId)))
    /\ i' = i + 1
    /\ UNCHANGED <<pc, fn, analysis_result, requests, log, videos,
                   channel_details_map, report, outsideExternal>>

\* as for freshness, but under the try: an exception of the call is reported
analyze_channel_authority_report ==
    /\ pc = "count"
    /\ fn = "analyze_channel_authority"
    /\ i = Len(videos)
    /\ report' = DistributionLines(distribution)
    /\ requests' = Append(requests, [by |-> fn,
                                     lines |-> DistributionLines(distribution)])
    /\ \E out \in GeminiOutcomes({[k |-> "str", s |-> t] :
                                     t \in {<<>>, <<"o", "k">>}}) :
          /\ analysis_result' = out
          /\ log' = log \o
                <<"[+] Channel Authority Distribution (by video count):",
                  IF out = Raise
                  THEN "ERROR: Failed to analyze channel authority"
                  ELSE IF Truthy(out)
                       THEN "[+] Authority Analysis Summary:"
                       ELSE "[-] Could not get Authority Analysis from AI.">>
    /\ pc' = "done"
    /\ UNCHANGED <<fn, i, videos, channel_details_map, distribution,
                   outsideExternal>>

\* ------------------------------- external_analyzer.run_external_analysis
\* the text of a credential value: a key, the sample value, nothing
ApiKey(kind) ==
    CASE kind = "valid" -> <<"A", "I", "z", "a">>
      [] kind = "placeholder" -> <<"Y", "O", "U", "R", "_", "K", "E", "Y">>
      [] OTHER -> <<>>

WordYour == <<"Y", "O", "U", "R">>

\* not api_key or "YOUR" in api_key
KeyUnset(api_key) == api_key = <<>> \/ Contains(api_key, WordYour)

\* what search().list(...).execute() can give: the items of the response
SearchResults ==
    SeqsUpTo([age_days : {0, 366}, channelId : {"c1"}], MaxVideos)

run_external_analysis_call ==
    /\ pc = "idle"
    /\ fn' = "run_external_analysis"
    /\ \E kind \in CredentialKinds : config' = ConfigWith("YOUTUBE", kind)
    /\ pc' = "get_service"
    /\ UNCHANGED <<i, analysis_result, requests, log, extVars,
                   besideExternal, contacted>>

\* get_youtube_service(config): None with the error reported when the key
\* is unset; else build(...), whose exception is reported and gives None
get_youtube_service ==
    /\ pc = "get_service"
    /\ IF KeyUnset(ApiKey(config["YOUTUBE"]))
       THEN /\ log' = Append(log, "ERROR: YouTube API Key not found or not set")
            /\ ret' = None
       ELSE \/ /\ log' = log \o <<"Building YouTube API service",
                                   "Successfully built YouTube API service">>
               /\ ret' = [k |-> "service"]
            \/ /\ log' = log \o <<"Building YouTube API service",
                                   "ERROR: Failed to build YouTube service">>
               /\ ret' = None
    /\ pc' = "service_returned"
    /\ UNCHANGED <<fn, i, analysis_result, requests, extVars, items,
                   prompt_lines, gemVars, files, redditVars, ytVars, envVars>>

\* if not youtube_service: print, return
run_external_analysis_aborted ==
    /\ pc = "service_returned"
    /\ ret = None
    /\ log' = Append(log, "Niche Discovery aborted due to connection failure")
    /\ pc' = "done"
    /\ UNCHANGED <<fn, i, analysis_result, requests, extVars,
                   outsideExternal>>

\* search_videos_by_keyword: the items found, or [] after an exception; the
\* service answers a working key only
search_videos_by_keyword ==
    /\ pc = "service_returned"
    /\ ret # None
    /\ contacted' = contacted \cup {"YOUTUBE"}
    /\ \/ /\ config["YOUTUBE"] = "valid"
          /\ \E found \in SearchResults : videos' = found
          /\ log' = log \o <<"Searching YouTube", "Found videos from search">>
       \/ /\ videos' = <<>>
          /\ log' = log \o <<"Searching YouTube",
                              "ERROR: Failed to search for videos">>
    /\ pc' = "searched"
    /\ UNCHANGED <<fn, i, analysis_result, requests, channel_details_map,
                   distribution, report, besideExternal, config>>

\* if not search_results: print, return
run_external_analysis_no_results ==
    /\ pc = "searched"
    /\ videos = <<>>
    /\ log' = Append(log, "No videos found for this topic. Exiting.")
    /\ pc' = "done"
    /\ UNCHANGED <<fn, i, analysis_result, requests, extVars,
                   outsideExternal>>

\* the search results go to analyze_content_freshness and to
\* analyze_channel_authority, whose steps are the actions above, entered
\* with a list of videos; then the closing line is printed
run_external_analysis_finished ==
    /\ pc = "searched"
    /\ videos # <<>>
    /\ log' = Append(log, "Niche Discovery Module Finished")
    /\ pc' = "done"
    /\ UNCHANGED <<fn, i, analysis_result, requests, extVars,
                   outsideExternal>>

\* ------------------------------- youtube_analyzer.analyze_video_comments
besideComments ==
    <<items, prompt_lines, gemVars, redditVars, extVars>>
outsideComments == <<besideComments, envVars>>

\* the comment at position no of the listing of video v; its text stands
\* for itself, so a row can be traced to the comment it was made from
Comment(v, no) == [text |-> <<"v", v, "c", no>>, like_count |-> 5]

\* a category that is a JSON number, not a string
NotAString == "5 (a number)"

\* json.loads of the answer to analyze_comment_sentiment
SentimentResponses ==
    {[k |-> "dict", keys |-> {"category", "summary"}, category |-> cat,
      summary |-> "sum"] : cat \in Categories \cup {NotAString}}
    \cup {[k |-> "dict", keys |-> {"category"}, category |-> "Question",
           summary |-> ""],
          [k |-> "dict", keys |-> {"summary"}, category |-> "",
           summary |-> "sum"],
          [k |-> "dict", keys |-> {}, category |-> "", summary |-> ""],
          [k |-> "list", len |-> 1]}

\* the output_file a caller can pass: a base path followed by .csv, where
\* the base itself may hold .csv
OutputFiles ==
    {[k |-> "str", s |-> base \o ExtCsv] :
        base \in {<<"o">>, <<"o">> \o ExtCsv}}

analyze_video_comments_call ==
    /\ pc = "idle"
    /\ fn' = "analyze_video_comments"
    /\ \E n \in 0..MaxAnalyzed :
          videos_to_analyze' = [j \in 1..n |-> [id |-> j, title |-> <<"t", j>>]]
    /\ \E path \in OutputFiles : output_file' = path
    /\ pc' = "videos"
    /\ UNCHANGED <<i, analysis_result, requests, log, files, ret, comments, c,
                   fetched, analysis_results, all_questions, pageVars,
                   selVars, outsideComments>>

\* comments = get_video_comments(...): the listing, or what was collected
\* when an exception ended it (reported inside get_video_comments)
analyze_video_comments_fetch ==
    /\ pc = "videos"
    /\ i < Len(videos_to_analyze)
    /\ \/ /\ \E n \in 0..(MaxComments - Len(fetched)) :
                comments' = [j \in 1..n |-> Comment(videos_to_analyze[i + 1].id, j)]
          /\ log' = Append(log, "Fetched comments for analysis")
       \/ /\ comments' = <<>>
          /\ log' = Append(log, "Warning: Could not retrieve comments")
    /\ contacted' = contacted \cup {"YOUTUBE"}
    /\ fetched' = fetched \o comments'
    /\ c' = 0
    /\ i' = i + 1
    /\ pc' = "comments"
    /\ UNCHANGED <<fn, analysis_result, requests, files, ret,
                   videos_to_analyze, analysis_results, all_questions,
                   output_file, pageVars, selVars, besideComments, config>>

\* ai_analysis.get('category') of a dict
GetCategory(v) == IF "category" \in v.keys THEN v.category ELSE ""

\* the row built for a comment of video from the classifier's answer
ResultRow(video, comment, ai_analysis) ==
    [video_title |-> video.title,
     video_url |-> <<"watch?v=", video.id>>,
     comment_text |-> comment.text,
     like_count |-> comment.like_count,
     category |-> ai_analysis.category,
     summary |-> ai_analysis.summary]

\* one turn of: for comment in comments
analyze_video_comments_classify ==
    /\ pc = "comments"
    /\ c < Len(comments)
    /\ requests' = Append(requests, [by |-> "analyze_comment_sentiment",
                                     lines |-> <<comments[c + 1].text>>])
    /\ \E out \in GeminiOutcomes(SentimentResponses) :
          /\ analysis_result' = out
          /\ IF out = Raise \/ (Truthy(out) /\ out.k # "dict")
             THEN \* the call raises, or .get is no attribute of the value
                  /\ pc' = "raised"
                  /\ UNCHANGED <<analysis_results, all_questions>>
             ELSE IF Truthy(out) /\ GetCategory(out) # ""
             THEN IF "summary" \in out.keys
                  THEN /\ analysis_results' =
                            Append(analysis_results,
                                   ResultRow(videos_to_analyze[i],
                                             comments[c + 1], out))
                       /\ all_questions' =
                            IF out.category = "Question"
                            THEN Append(all_questions, out.summary)
                            ELSE all_questions
                       /\ pc' = pc
                  ELSE \* ai_analysis['summary'] raises KeyError
                       /\ pc' = "raised"
                       /\ UNCHANGED <<analysis_results, all_questions>>
             ELSE /\ pc' = pc
                  /\ UNCHANGED <<analysis_results, all_questions>>
    /\ c' = c + 1
    /\ UNCHANGED <<fn, i, log, files, ret, videos_to_analyze, comments,
                   fetched, output_file, pageVars, selVars, outsideComments>>

analyze_video_comments_next_video ==
    /\ pc = "comments"
    /\ c = Len(comments)
    /\ pc' = "videos"
    /\ UNCHANGED <<fn, i, analysis_result, requests, log, files, ret, ytVars,
                   outsideComments>>

\* a check that never finds the list empty
NeverEmpty(results) == FALSE

\* if not analysis_results
NoResults(results) == results = <<>>

\* print, return []
analyze_video_comments_no_results ==
    /\ pc = "videos"
    /\ i = Len(videos_to_analyze)
    /\ NoResults(analysis_results)
    /\ log' = Append(log, "No analyzable comments found.")
    /\ ret' = [k |-> "list", len |-> 0]
    /\ pc' = "done"
    /\ UNCHANGED <<fn, i, analysis_result, requests, files, ytVars,
                   outsideComments>>

CommentHeader ==
    [header |-> <<"video_title", "video_url", "category", "like_count",
                  "summary", "comment_text">>]

\* writer.writeheader(); writer.writerows(analysis_results)
analyze_video_comments_write_csv ==
    /\ pc = "videos"
    /\ i = Len(videos_to_analyze)
    /\ ~NoResults(analysis_results)
    /\ \E w \in WriteOutcomes(output_file.s,
                              <<CommentHeader>> \o analysis_results) :
          /\ files' = IF w.made THEN Append(files, w.file) ELSE files
          /\ log' = Append(log,
                       IF w.made /\ w.file.complete
                       THEN "Detailed analysis saved"
                       ELSE "ERROR: Could not write CSV file")
          /\ pc' = AfterWrite(w, "write_html")
    /\ UNCHANGED <<fn, i, analysis_result, requests, ret, ytVars,
                   outsideComments>>

\* the <tr> built for one result
HtmlRow(r) ==
    [category |-> r.category, like_count |-> r.like_count,
     summary |-> r.summary, comment_text |-> r.comment_text,
     video_title |-> r.video_title]

\* rows built from the results last to first
HtmlRowsReversed(results) ==
    [j \in 1..Len(results) |-> HtmlRow(results[Len(results) + 1 - j])]

\* for r in results: body += <tr>...</tr>
HtmlRows(results) == [j \in 1..Len(results) |-> HtmlRow(results[j])]

HtmlHead ==
    [header |-> <<"Category", "Like Count", "Summary (Translated)",
                  "Original Comment", "Video Title">>]

\* r['category'].replace(' ', '-') of every row: no attribute of a number
RowsBuild(results) ==
    \A r \in 1..Len(results) : results[r].category # NotAString

\* write_html_report(analysis_results, output_file), then return
\* all_questions; the rows are built outside the try
write_html_report ==
    /\ pc = "write_html"
    /\ IF RowsBuild(analysis_results)
       THEN \E w \in WriteOutcomes(Replace(output_file.s, ExtCsv, ExtHtml),
                                   <<HtmlHead>> \o HtmlRows(analysis_results)) :
               /\ files' = IF w.made THEN Append(files, w.file) ELSE files
               /\ log' = log \o
                     <<"Generating interactive HTML report",
                       IF w.made /\ w.file.complete
                       THEN "Successfully generated HTML report."
                       ELSE "ERROR: Could not write HTML report file">>
               /\ ret' = IF fn = "analyze_video_comments"
                          THEN [k |-> "list", len |-> Len(all_questions)]
                          ELSE None
               /\ pc' = AfterWrite(w, "done")
       ELSE /\ log' = Append(log, "Generating interactive HTML report")
            /\ pc' = "raised"
            /\ UNCHANGED <<files, ret>>
    /\ UNCHANGED <<fn, i, analysis_result, requests, ytVars, outsideComments>>

\* ------------------------------------------------ the report in a browser
\* the characters of the texts a result of the model holds
Chars(s) ==
    CASE s = "Question" -> <<"Q", "u", "e", "s", "t", "i", "o", "n">>
      [] s = "Other" -> <<"O", "t", "h", "e", "r">>
      [] s = "Big Question" ->
           <<"B", "i", "g", " ", "Q", "u", "e", "s", "t", "i", "o", "n">>
      [] s = "sum" -> <<"s", "u", "m">>
      [] s = "Zed" -> <<"Z", "e", "d">>
      [] s = "Hi" -> <<"H", "i">>
      [] s = "ok" -> <<"o", "k">>

ReportRow(cat, likes, summary, text) ==
    [video_title |-> <<"t", 1>>, video_url |-> <<"watch?v=", 1>>,
     comment_text |-> text, like_count |-> likes, category |-> cat,
     summary |-> summary]

\* results a caller hands to write_html_report: a category may be any
\* string the classifier answered
ReportRows ==
    {ReportRow("Question", 5, "sum", "Hi"),
     ReportRow("Other", 50, "Zed", "ok"),
     ReportRow("Big Question", 9, "sum", "Zed")}

write_html_report_call ==
    /\ pc = "idle"
    /\ fn' = "write_html_report"
    /\ \E results \in SeqsUpTo(ReportRows, MaxRows) :
          analysis_results' = results
    /\ output_file' = [k |-> "str", s |-> <<"o">> \o ExtCsv]
    /\ pc' = "write_html"
    /\ UNCHANGED <<i, analysis_result, requests, log, files, ret,
                   videos_to_analyze, comments, c, fetched, all_questions,
                   pageVars, selVars, outsideComments>>

DigitChars == <<"0", "1", "2", "3", "4", "5", "6", "7", "8", "9">>

\* f'{n}' of a count
RECURSIVE Str(_)
Str(n) ==
    IF n < 10 THEN <<DigitChars[n + 1]>>
    ELSE Str(n \div 10) \o <<DigitChars[(n % 10) + 1]>>

SpanOpen == "<span class=\"category "
SpanClose == "</span>"

\* the <tr> the browser builds from a row of the file: the markup and the
\* text of its five cells; pos, its place in the file, tells one row
\* element from another
Tr(r, pos) ==
    [pos |-> pos,
     innerHTML |->
        <<<<SpanOpen>> \o Replace(Chars(r.category), <<" ">>, <<"-">>)
             \o <<"\"", ">">> \o Chars(r.category) \o <<SpanClose>>,
          Str(r.like_count), Chars(r.summary), Chars(r.comment_text),
          r.video_title>>,
     textContent |->
        <<Chars(r.category), Str(r.like_count), Chars(r.summary),
          Chars(r.comment_text), r.video_title>>,
     display |-> ""]

\* the row of the <thead>: its cells are <th>, it has no <td>
HeaderRow ==
    [pos |-> 0, innerHTML |-> <<>>, textContent |-> <<>>, display |-> ""]

\* table.rows of a report file
Rendered(lines) ==
    [j \in 1..Len(lines) |->
        IF j = 1 THEN HeaderRow ELSE Tr(lines[j], j - 1)]

\* the report that was written in full is opened
load_report ==
    /\ pc = "done"
    /\ fn = "write_html_report"
    /\ files # <<>>
    /\ files[Len(files)].complete
    /\ table' = Rendered(files[Len(files)].lines)
    /\ pc' = "page"
    /\ UNCHANGED <<fn, i, analysis_result, requests, log, files, ret,
                   videos_to_analyze, comments, c, fetched, analysis_results,
                   all_questions, output_file, dir, switchcount, columnIndex,
                   keywordFilter, categoryFilter, selVars, outsideComments>>

\* what the user can type into keywordFilter, and the options of
\* categoryFilter the model offers
Keywords == {<<>>, <<"Z">>}
Options == {<<>>, Chars("Question")}

\* the test of the category cell against the selected option
CategoryMatch(category, cell) == category = <<>> \/ Contains(cell, category)

KeywordMatch(keyword, row) ==
    \/ Contains(Lower(row.textContent[3]), keyword)
    \/ Contains(Lower(row.textContent[4]), keyword)

\* the user types into keywordFilter or picks an option of categoryFilter;
\* filterTable(): every row after the header is shown or hidden
filterTable ==
    /\ pc = "page"
    /\ \E value \in Keywords, category \in Options :
          /\ keywordFilter' = value
          /\ categoryFilter' = category
          /\ LET keyword == Lower(value) IN
             table' =
               [j \in 1..Len(table) |->
                  IF j = 1 THEN table[j]
                  ELSE [table[j] EXCEPT !.display =
                          IF /\ CategoryMatch(category,
                                              table[j].textContent[1])
                             /\ KeywordMatch(keyword, table[j])
                          THEN "" ELSE "none"]]
    /\ UNCHANGED <<pc, fn, i, analysis_result, requests, log, files, ret,
                   videos_to_analyze, comments, c, fetched, analysis_results,
                   all_questions, output_file, dir, switchcount, columnIndex,
                   selVars, outsideComments>>

\* the characters of the lower-cased cells, in the order of their code
\* units
CodeOrder ==
    <<" ", "\"", "-", "0", "1", "2", "3", "4", "5", "6", "7", "8", "9", ">",
      "a", "b", "c", "d", "e", "f", "g", "h", "i", "j",
      "k", "l", "m", "n", "o", "p", "q", "r", "s", "t", "u", "v", "w", "x",
      "y", "z">>

Code(ch) == CHOOSE n \in 1..Len(CodeOrder) : CodeOrder[n] = ch

\* x < y of two strings: at the first place where they differ, x has ended
\* or holds the smaller code unit
TextLess(x, y) ==
    \E n \in 1..Len(y) :
        /\ \A m \in 1..(n - 1) : m <= Len(x) /\ x[m] = y[m]
        /\ n <= Len(x) => x[n] # y[n] /\ Code(x[n]) < Code(y[n])

\* x.toLowerCase() < y.toLowerCase()
LowerLess(x, y) ==
    \E n \in 1..Len(y) :
        /\ \A m \in 1..(n - 1) :
              m <= Len(x) /\ LowerChar(x[m]) = LowerChar(y[m])
        /\ n <= Len(x) =>
              /\ LowerChar(x[n]) # LowerChar(y[n])
              /\ Code(LowerChar(x[n])) < Code(LowerChar(y[n]))

DigitValue(ch) == (CHOOSE d \in 1..Len(DigitChars) : DigitChars[d] = ch) - 1

\* parseInt(s) || 0: the number its leading digits spell, 0 without one
RECURSIVE ParseDigits(_, _)
ParseDigits(s, n) ==
    IF s = <<>> \/ Head(s) \notin Range(DigitChars) THEN n
    ELSE ParseDigits(Tail(s), 10 * n + DigitValue(Head(s)))

ParseInt(s) == ParseDigits(s, 0)

\* the headers with an onclick
SortableColumns == {0, 1, 2}

\* a sort that compares the like counts as text
ContentLessAsText(col, x, y) ==
    TextLess(Lower(x.innerHTML[col + 1]), Lower(y.innerHTML[col + 1]))

\* xContent < yContent as sortTable(col) compares the cells of two rows
ContentLess(col, x, y) ==
    IF col = 1
    THEN ParseInt(x.innerHTML[col + 1]) < ParseInt(y.innerHTML[col + 1])
    ELSE LowerLess(x.innerHTML[col + 1], y.innerHTML[col + 1])

\* a comparison that also switches rows whose contents are equal
SwitchOnEqual(d, col, x, y) ==
    IF d = "asc" THEN ~ContentLess(col, x, y) ELSE ~ContentLess(col, y, x)

\* shouldSwitch for the rows x and y, y the next one
ShouldSwitch(d, col, x, y) ==
    IF d = "asc" THEN ContentLess(col, y, x)
    ELSE IF d = "desc" THEN ContentLess(col, x, y)
    ELSE FALSE

\* the inner loop breaks at i = j - 1 (j a position of table, the header
\* at 1): the first pair with shouldSwitch
BreaksAt(rows, d, col, j) ==
    /\ ShouldSwitch(d, col, rows[j], rows[j + 1])
    /\ \A h \in 2..(j - 1) : ~ShouldSwitch(d, col, rows[h], rows[h + 1])

\* the inner loop ends without shouldSwitch
NoSwitch(rows, d, col) ==
    \A j \in 2..(Len(rows) - 1) : ~ShouldSwitch(d, col, rows[j], rows[j + 1])

\* an insertion that leaves the moved row where it was as well
InsertCopy(rows, j) == [rows EXCEPT ![j] = rows[j + 1]]

\* rows[i].parentNode.insertBefore(rows[i + 1], rows[i])
InsertBefore(rows, j) ==
    [rows EXCEPT ![j] = rows[j + 1], ![j + 1] = rows[j]]

\* a test that forgets the direction
TurnsWheneverUnswitched(count, d) == count = 0

\* if (switchcount == 0 && dir == "asc")
TurnsDescending(count, d) == count = 0 /\ d = "asc"

\* sortTable(columnIndex): switching = true; dir = "asc"; switchcount = 0
sortTable_call ==
    /\ pc = "page"
    /\ \E col \in SortableColumns : columnIndex' = col
    /\ dir' = "asc"
    /\ switchcount' = 0
    /\ pc' = "sorting"
    /\ UNCHANGED <<fn, i, analysis_result, requests, log, files, ret,
                   videos_to_analyze, comments, c, fetched, analysis_results,
                   all_questions, output_file, table, keywordFilter,
                   categoryFilter, selVars, outsideComments>>

\* one turn of: while (switching)
sortTable_pass ==
    /\ pc = "sorting"
    /\ \/ \E j \in 2..(Len(table) - 1) :
             /\ BreaksAt(table, dir, columnIndex, j)
             /\ table' = InsertBefore(table, j)
             /\ switchcount' = switchcount + 1
             /\ UNCHANGED <<pc, dir>>
       \/ /\ NoSwitch(table, dir, columnIndex)
          /\ IF TurnsDescending(switchcount, dir)
             THEN /\ dir' = "desc"
                  /\ UNCHANGED <<pc, table, switchcount>>
             ELSE /\ pc' = "page"
                  /\ UNCHANGED <<table, dir, switchcount>>
    /\ UNCHANGED <<fn, i, analysis_result, requests, log, files, ret,
                   videos_to_analyze, comments, c, fetched, analysis_results,
                   all_questions, output_file, columnIndex, keywordFilter,
                   categoryFilter, selVars, outsideComments>>


\* ---------------------------- youtube_analyzer: the videos a run analyses
\* the uploads playlist of a channel: the video at place j has id j; its
\* viewCount is the decimal text the API gives
ViewCounts == {<<"7">>, <<"1", "0">>}

Playlists ==
    UNION {{[j \in 1..n |-> [id |-> j, viewCount |-> f[j]]] :
               f \in [1..n -> ViewCounts]} : n \in 0..MaxUploads}

\* run_youtube_analysis with a service and a channel id at hand, at
\* videos_to_analyze = get_channel_videos(...)
run_youtube_analysis_call ==
    /\ pc = "idle"
    /\ fn' = "run_youtube_analysis"
    /\ \E how \in {"popular", "newest"} : sort_by' = how
    /\ \E n \in 0..MaxLimit : video_limit' = n
    /\ \E list \in Playlists : uploads' = list
    /\ video_ids' = <<>>
    /\ next_page_token' = None
    /\ log' = Append(log, IF sort_by' = "popular"
                          THEN "Fetching ALL videos for channel"
                          ELSE "Fetching newest videos for channel")
    /\ pc' = "playlist"
    /\ UNCHANGED <<i, analysis_result, requests, files, ret, videos_to_analyze,
                   comments, c, fetched, analysis_results, all_questions,
                   output_file, pageVars, outsideComments>>

\* fetch_all = (sort_by == 'popular') or force_fetch_all
FetchAll == sort_by = "popular"

\* the page playlistItems().list answers for a token: where it starts
PageStart(token) == IF token = None THEN 0 ELSE token.n

PageOf(list, token) ==
    SubSeq(list, PageStart(token) + 1,
           IF PageStart(token) + PageSize < Len(list)
           THEN PageStart(token) + PageSize ELSE Len(list))

\* playlist_items_res.get('nextPageToken')
NextPageToken(list, token) ==
    IF PageStart(token) + PageSize < Len(list)
    THEN [k |-> "token", n |-> PageStart(token) + PageSize]
    ELSE None

\* a loop that goes on while there is a next page
NeverEnough(ids, limit) == FALSE

\* if not fetch_all and len(video_ids) >= video_limit: break
Enough(ids, limit) == ~FetchAll /\ Len(ids) >= limit

\* except Exception: print the error, return []
get_channel_videos_failed ==
    /\ videos_to_analyze' = <<>>
    /\ log' = Append(log, "ERROR: Failed to fetch videos for channel")
    /\ pc' = "returned"

\* one turn of: while True (the first is preceded by channels().list)
get_channel_videos_page ==
    /\ pc = "playlist"
    /\ contacted' = contacted \cup {"YOUTUBE"}
    /\ \/ /\ get_channel_videos_failed
          /\ UNCHANGED <<video_ids, next_page_token>>
       \/ LET page == PageOf(uploads, next_page_token)
              ids == video_ids \o [j \in 1..Len(page) |-> page[j].id]
              token == NextPageToken(uploads, next_page_token)
          IN /\ video_ids' = ids
             /\ IF Enough(ids, video_limit)
                THEN /\ pc' = "details"
                     /\ UNCHANGED next_page_token
                ELSE /\ next_page_token' = token
                     /\ pc' = IF token = None THEN "details" ELSE pc
             /\ UNCHANGED <<videos_to_analyze, log>>
    /\ UNCHANGED <<fn, i, analysis_result, requests, files, ret, comments, c,
                   fetched, analysis_results, all_questions, output_file,
                   pageVars, sort_by, video_limit, uploads, besideComments,
                   config>>

\* video_ids[:video_limit] when not fetch_all
IdsAsked(ids, limit) == IF FetchAll THEN ids ELSE Prefix(ids, limit)

\* videos().list(id=...)['items'] over the chunks: the videos of the ids,
\* in the order asked
Details(list, ids) == [j \in 1..Len(ids) |-> list[ids[j]]]

get_channel_videos_details ==
    /\ pc = "details"
    /\ LET ids == IdsAsked(video_ids, video_limit) IN
       /\ video_ids' = ids
       /\ \/ /\ ids # <<>>
             /\ get_channel_videos_failed
          \/ /\ videos_to_analyze' = Details(uploads, ids)
             /\ log' = Append(log, "Found details for videos")
             /\ pc' = "returned"
    /\ UNCHANGED <<fn, i, analysis_result, requests, files, ret, comments, c,
                   fetched, analysis_results, all_questions, output_file,
                   pageVars, sort_by, video_limit, uploads, next_page_token,
                   outsideComments>>

\* int(v.get('statistics', {}).get('viewCount', 0))
ViewCount(v) == ParseDigits(v.viewCount, 0)

\* list.sort(key=..., reverse=True): descending, videos of equal key in
\* the order they had
RECURSIVE InsertByViews(_, _)
InsertByViews(s, v) ==
    IF s = <<>> \/ ViewCount(s[Len(s)]) >= ViewCount(v) THEN Append(s, v)
    ELSE Append(InsertByViews(SubSeq(s, 1, Len(s) - 1), v), s[Len(s)])

RECURSIVE SortByViews(_)
SortByViews(vs) ==
    IF vs = <<>> THEN <<>>
    ELSE InsertByViews(SortByViews(SubSeq(vs, 1, Len(vs) - 1)), vs[Len(vs)])

\* if videos_to_analyze: if sort_by == 'popular': sort, [:video_limit];
\* the videos that go on to the analyses
run_youtube_analysis_select ==
    /\ pc = "returned"
    /\ IF videos_to_analyze # <<>> /\ sort_by = "popular"
       THEN /\ videos_to_analyze' =
                 Prefix(SortByViews(videos_to_analyze), video_limit)
            /\ log' = Append(log, "Selected top most viewed videos")
       ELSE UNCHANGED <<videos_to_analyze, log>>
    /\ pc' = "done"
    /\ UNCHANGED <<fn, i, analysis_result, requests, files, ret, comments, c,
                   fetched, analysis_results, all_questions, output_file,
                   pageVars, selVars, outsideComments>>

\* ------------------------------------------------------------------- Next
Next ==
    \/ get_gemini_analysis_call
    \/ get_gemini_analysis_configure
    \/ get_gemini_analysis_generate
    \/ get_gemini_analysis_json
    \/ get_gemini_analysis_text
    \/ get_gemini_analysis_no_text
    \/ analyze_thumbnails_style_call
    \/ analyze_thumbnails_style_download
    \/ analyze_thumbnails_style_no_images
    \/ analyze_thumbnails_style_request
    \/ analyze_posts_batch_call
    \/ analyze_posts_batch_enumerate
    \/ analyze_posts_batch_request
    \/ analyze_posts_batch_merge
    \/ run_reddit_analysis_call
    \/ initialize_reddit_client
    \/ get_reddit_posts_no_client
    \/ get_reddit_posts_fetch
    \/ get_reddit_posts_return
    \/ run_reddit_analysis_no_posts
    \/ run_reddit_analysis_density
    \/ run_reddit_analysis_save_csv
    \/ perform_deep_dive_call
    \/ perform_deep_dive_empty
    \/ perform_deep_dive_request
    \/ run_reddit_analysis_no_deep_dive
    \/ run_reddit_analysis_no_context
    \/ run_reddit_analysis_no_problem_posts
    \/ run_reddit_analysis_deep_dive
    \/ run_reddit_analysis_save_report
    \/ analyze_content_freshness_call
    \/ analyze_no_videos
    \/ analyze_content_freshness_start
    \/ analyze_content_freshness_count
    \/ analyze_content_freshness_report
    \/ analyze_channel_authority_call
    \/ analyze_channel_authority_fetch
    \/ analyze_channel_authority_count
    \/ analyze_channel_authority_report
    \/ run_external_analysis_call
    \/ get_youtube_service
    \/ run_external_analysis_aborted
    \/ search_videos_by_keyword
    \/ run_external_analysis_no_results
    \/ run_external_analysis_finished
    \/ analyze_video_comments_call
    \/ analyze_video_comments_fetch
    \/ analyze_video_comments_classify
    \/ analyze_video_comments_next_video
    \/ analyze_video_comments_no_results
    \/ analyze_video_comments_write_csv
    \/ write_html_report
    \/ run_youtube_analysis_call
    \/ get_channel_videos_page
    \/ get_channel_videos_details
    \/ run_youtube_analysis_select
    \/ write_html_report_call
    \/ load_report
    \/ filterTable
    \/ sortTable_call
    \/ sortTable_pass
    \/ analyze_comments_batch_call
    \/ analyze_comments_batch_enumerate
    \/ analyze_comments_batch_request
    \/ analyze_comments_batch_merge

Spec == Init /\ [][Next]_vars

\* ------------------------------------------------- the page on its own
\* a report written in full and opened: the state load_report leaves
PageInit ==
    \E results \in SeqsUpTo(ReportRows, MaxRows) :
       LET path == [k |-> "str", s |-> <<"o">> \o ExtCsv]
           lines == <<HtmlHead>> \o HtmlRows(results)
       IN /\ pc = "page"
          /\ fn = "write_html_report"
          /\ analysis_results = results
          /\ output_file = path
          /\ files = <<[path |-> Replace(path.s, ExtCsv, ExtHtml),
                       lines |-> lines, complete |-> TRUE]>>
          /\ log = <<"Generating interactive HTML report",
                     "Successfully generated HTML report.">>
          /\ table = Rendered(lines)
          /\ items = <<>>
          /\ i = 0
          /\ prompt_lines = <<>>
          /\ requests = <<>>
          /\ analysis_result = None
          /\ ret = None
          /\ is_json_output = FALSE
          /\ response = None
          /\ sent = 0
          /\ subreddits = <<>>
          /\ reddit = None
          /\ posts = <<>>
          /\ problem_posts = <<>>
          /\ problem_density = None
          /\ deep_dive = FALSE
          /\ context = None
          /\ output_file_base = None
          /\ videos = <<>>
          /\ channel_details_map = None
          /\ distribution = <<>>
          /\ report = <<>>
          /\ videos_to_analyze = <<>>
          /\ comments = <<>>
          /\ c = 0
          /\ fetched = <<>>
          /\ all_questions = <<>>
          /\ config = [c0 \in Collaborators |-> "valid"]
          /\ contacted = {}
          /\ dir = "asc"
          /\ switchcount = 0
          /\ columnIndex = 0
          /\ keywordFilter = <<>>
          /\ categoryFilter = <<>>
          /\ sort_by = "newest"
          /\ video_limit = 0
          /\ uploads = <<>>
          /\ video_ids = <<>>
          /\ next_page_token = None

\* the events of the page and the turns of the handler that is running
PageNext ==
    \/ filterTable
    \/ sortTable_call
    \/ sortTable_pass

\* a handler of the page runs to its end before the next event is taken:
\* while sortTable has a turn of its loop to take, it takes it
PageSpec == PageInit /\ [][PageNext]_vars /\ WF_vars(sortTable_pass)

\* ================================================================ claims
BatchFns == {"analyze_comments_batch", "analyze_posts_batch"}

\* C1: the batchers give the item at 0-based position j the index j and
\* write that same number into the prompt, so that once the loop is over
\* the indices and the prompt numbers are exactly 0..n-1, each once.
C1_IndexContiguity ==
    fn \in BatchFns =>
        /\ Len(prompt_lines) = i
        /\ \A j \in 1..i :
              /\ items[j].id = j - 1
              /\ prompt_lines[j].num = j - 1
        /\ pc \in {"merge", "done", "raised"} =>
              /\ i = Len(items)
              /\ {items[j].id : j \in 1..Len(items)} = 0..(Len(items) - 1)
              /\ {prompt_lines[j].num : j \in 1..Len(prompt_lines)}
                    = 0..(Len(items) - 1)
              /\ Cardinality({items[j].id : j \in 1..Len(items)})
                    = Len(items)

C1_Witness ==
    /\ fn = "analyze_comments_batch"
    /\ pc = "merge"
    /\ Len(items) >= 2
    /\ items[1].text = items[2].text

\* C2 (as claimed): the merge result only holds indices of the batch.
C2_MergeOnlyInRange ==
    (fn \in BatchFns /\ pc = "done" /\ ret # None) =>
        ret.keys \subseteq 0..(Len(items) - 1)

\* C3 (as claimed): get_gemini_analysis never raises; a failure is reported
\* and gives None, anything else gives the stripped text or the decoded
\* JSON value.
C3_NeverRaises ==
    fn = "get_gemini_analysis" =>
        /\ pc # "raised"
        /\ pc = "done" =>
              \/ ret = None /\ log # <<>>
              \/ /\ log = <<>>
                 /\ ret = IF is_json_output
                          THEN JsonLoads(CleanResponse(response.text))
                          ELSE [k |-> "str", s |-> Strip(response.text)]

\* C4 (as claimed): a valid JSON document inside a code fence, whatever the
\* language tag after the opening fence, decodes to what the bare document
\* decodes to.
C4_FenceAnyTag ==
    (fn = "get_gemini_analysis" /\ pc = "done" /\ is_json_output
        /\ response # None) =>
        \A tag \in Tags, doc \in ValidDocs :
            response.text = Wrap(tag, doc) =>
                ret = JsonLoads(CleanResponse(doc))

\* C5 (as claimed): no request is made for an empty batch.
C5_NoRequestForEmptyBatch ==
    \A j \in 1..Len(requests) : requests[j].lines # <<>>

\* C6 (as claimed): every finished run reports the density, 0.00% when
\* there is no post.
DensityReported == \E j \in 1..Len(log) : log[j] = "[Reddit] Problem Density"

ProblemCount == Cardinality({j \in 1..Len(posts) : IsProblematic(posts[j])})

\* d is the percentage 100 * a / b to two decimals, in hundredths
IsPercentage(d, a, b) ==
    LET err == d * b - 10000 * a IN
    /\ 2 * err <= b
    /\ 2 * err >= 0 - b

C6_DensityAlwaysReported ==
    (fn = "run_reddit_analysis" /\ pc = "done") =>
        /\ DensityReported
        /\ problem_density # None
        /\ problem_density.hundredths =
              IF posts = <<>> THEN 0
              ELSE ProblemDensity(ProblemCount, Len(posts)).hundredths

\* C6 (amended): a run with at least one post reports
\* count(problem posts) / count(all posts) * 100 to two decimals (3 of 10
\* is 30.00%); a run with no post stops before the density is computed:
\* it reports none and divides by nothing.
C6_Density ==
    /\ ProblemDensity(3, 10).hundredths = 3000
    /\ fn = "run_reddit_analysis" =>
          /\ (pc \in {"save_csv", "deep_dive", "dd_snippets", "dd_returned",
                      "done", "raised"} /\ posts # <<>>) =>
                /\ DensityReported
                /\ problem_density # None
                /\ IsPercentage(problem_density.hundredths, ProblemCount,
                                Len(posts))
          /\ DensityReported => posts # <<>>
          /\ (pc = "done" /\ posts = <<>>) =>
                /\ ~DensityReported
                /\ problem_density = None

C6_Witness ==
    /\ fn = "run_reddit_analysis"
    /\ pc = "done"
    /\ Len(posts) = 3
    /\ ProblemCount = 2
    /\ problem_density.hundredths = 6667


\* C7: in both distributions every video is counted in exactly one
\* bucket, the first in ascending order whose bound its value satisfies
\* (the last bucket takes the rest), so the counts add up to the number of
\* videos counted.
BucketFns == {"analyze_content_freshness", "analyze_channel_authority"}

AgeBounds == <<30, 180, 365>>
SubsBounds == <<10000, 100000, 1000000>>

\* the value of the j-th video that the running distribution looks at
ValueOf(j) ==
    IF fn = "analyze_content_freshness"
    THEN videos[j].age_days
    ELSE SubsOf(channel_details_map, videos[j].channelId)

SatisfiesBound(v, b) ==
    IF fn = "analyze_content_freshness"
    THEN v <= AgeBounds[b]
    ELSE v < SubsBounds[b]

FirstBucket(v) ==
    IF \E b \in 1..3 : SatisfiesBound(v, b)
    THEN CHOOSE b \in 1..3 :
            /\ SatisfiesBound(v, b)
            /\ \A b2 \in 1..(b - 1) : ~SatisfiesBound(v, b2)
    ELSE 4

RECURSIVE SumCounts(_)
SumCounts(dist) ==
    IF dist = <<>> THEN 0 ELSE Head(dist).count + SumCounts(Tail(dist))

C7_OneBucketEach ==
    (fn \in BucketFns /\ distribution # <<>>) =>
        /\ Len(distribution) = 4
        /\ \A b \in 1..4 :
              distribution[b].count =
                  Cardinality({j \in 1..i : FirstBucket(ValueOf(j)) = b})
        /\ SumCounts(distribution) = i
        /\ report # <<>> => SumCounts(report) = Len(videos)

C7_Witness ==
    /\ fn = "analyze_content_freshness"
    /\ pc = "done"
    /\ Len(videos) = 3
    /\ videos[1].age_days = 31
    /\ videos[2].age_days = 366
    /\ videos[3].age_days = 30
    /\ SumCounts(report) = 3

\* C8: a distribution that is printed (and sent in the prompt) lists all
\* four buckets in ascending order of their bounds, those with count 0 too.
DistributionPrinted ==
    \E j \in 1..Len(log) :
        log[j] \in {"[+] Video Age Distribution:",
                    "[+] Channel Authority Distribution (by video count):"}

LabelsOf(f) ==
    IF f = "analyze_content_freshness" THEN AgeLabels ELSE SubsLabels

AllBuckets(lines, f) ==
    /\ Len(lines) = 4
    /\ [b \in 1..4 |-> lines[b].label] = LabelsOf(f)
    /\ \A b \in 1..4 : lines[b].count = distribution[b].count

C8_AllBucketsReported ==
    fn \in BucketFns =>
        /\ DistributionPrinted => AllBuckets(report, fn)
        /\ \A j \in 1..Len(requests) : AllBuckets(requests[j].lines, fn)

C8_Witness ==
    /\ fn = "analyze_channel_authority"
    /\ pc = "done"
    /\ DistributionPrinted
    /\ Len(report) = 4
    /\ report[1].count = 0
    /\ report[2].count = 2
    /\ report[3].count = 0
    /\ report[4].count = 0

\* C9: the rows of every written report are in fetch order: the Reddit CSV
\* has the posts subreddit by subreddit as requested and in listing order
\* within each; the comment CSV and the HTML table have the classified
\* comments in the order they were fetched.
IsCsvPath(path) ==
    Len(path) >= Len(ExtCsv)
    /\ SubSeq(path, Len(path) - Len(ExtCsv) + 1, Len(path)) = ExtCsv

InFetchOrder(ps) ==
    \A j, k \in 1..Len(ps) :
        j < k =>
            \/ ps[j].subreddit < ps[k].subreddit
            \/ ps[j].subreddit = ps[k].subreddit /\ ps[j].no < ps[k].no

\* the place of a comment among all the comments fetched
FetchPosition(text) == CHOOSE j \in 1..Len(fetched) : fetched[j].text = text

C9_RowsInFetchOrder ==
    /\ fn = "run_reddit_analysis" =>
          /\ InFetchOrder(posts)
          /\ \A f \in 1..Len(files) :
                IsCsvPath(files[f].path) =>
                    \A r \in 2..Len(files[f].lines) :
                        files[f].lines[r].url =
                            <<posts[r - 1].subreddit, posts[r - 1].no>>
    /\ fn = "analyze_video_comments" =>
          \A f \in 1..Len(files) :
              LET lines == files[f].lines IN
              /\ \A r \in 2..Len(lines) :
                    \E j \in 1..Len(fetched) :
                        fetched[j].text = lines[r].comment_text
              /\ \A r, r2 \in 2..Len(lines) :
                    r < r2 => FetchPosition(lines[r].comment_text)
                                 < FetchPosition(lines[r2].comment_text)

C9_Witness ==
    /\ fn = "analyze_video_comments"
    /\ pc = "done"
    /\ Len(files) = 2
    /\ files[2].complete
    /\ Len(files[2].lines) = 3
    /\ files[2].lines[2].video_title # files[2].lines[3].video_title
    /\ Len(fetched) = 3

\* C10 (as claimed): a run that fetched nothing, or merged nothing, still
\* writes a CSV file holding the header row alone.
C10_HeaderOnlyCsv ==
    /\ (fn = "run_reddit_analysis" /\ pc = "done" /\ posts = <<>>) =>
          \E f \in 1..Len(files) :
              IsCsvPath(files[f].path) /\ files[f].lines = <<RedditHeader>>
    /\ (fn = "analyze_video_comments" /\ pc = "done"
          /\ analysis_results = <<>>) =>
          \E f \in 1..Len(files) :
              IsCsvPath(files[f].path) /\ files[f].lines = <<CommentHeader>>

\* C10 (amended): a run that fetched nothing, or merged nothing, returns
\* at that check without writing any file (run_reddit_analysis after
\* "No posts found", analyze_video_comments with an empty list after
\* "No analyzable comments found"); the CSV stage is only reached with at
\* least one row, so a CSV file written in full is the header row followed
\* by one data row or more.
Logged(msg) == \E j \in 1..Len(log) : log[j] = msg

C10_NoCsvWithoutRows ==
    /\ fn = "run_reddit_analysis" =>
          /\ (pc = "done" /\ posts = <<>>) =>
                files = <<>> /\ Logged("No posts found. Exiting Reddit analysis.")
          /\ pc \in {"save_csv", "deep_dive", "dd_snippets", "dd_returned"}
                => posts # <<>>
    /\ fn = "analyze_video_comments" =>
          /\ (pc = "done" /\ analysis_results = <<>>) =>
                /\ files = <<>>
                /\ ret = [k |-> "list", len |-> 0]
                /\ Logged("No analyzable comments found.")
          /\ pc = "write_html" => analysis_results # <<>>
    /\ fn \in {"run_reddit_analysis", "analyze_video_comments"} =>
          \A f \in 1..Len(files) :
              (IsCsvPath(files[f].path) /\ files[f].complete) =>
                  /\ Len(files[f].lines) >= 2
                  /\ files[f].lines[1] \in {RedditHeader, CommentHeader}
                  /\ \A r \in 2..Len(files[f].lines) :
                        files[f].lines[r] \notin {RedditHeader, CommentHeader}

C10_Witness ==
    /\ fn = "analyze_video_comments"
    /\ pc = "done"
    /\ Len(fetched) = 2
    /\ analysis_results = <<>>
    /\ files = <<>>

\* C11: in analyze_video_comments a failed write of the CSV file is
\* reported and raises nothing, and the HTML report of the same run is
\* attempted after it; a failed write of the HTML file is reported and
\* raises nothing either, the question list is still returned.
CsvError == "ERROR: Could not write CSV file"
HtmlError == "ERROR: Could not write HTML report file"

WrittenInFull(path) ==
    \E f \in 1..Len(files) : files[f].path = path /\ files[f].complete

C11_WriteFailuresReported ==
    fn = "analyze_video_comments" =>
        /\ Logged(CsvError) =>
              /\ pc \in {"write_html", "done", "raised"}
              /\ pc # "write_html" =>
                    Logged("Generating interactive HTML report")
              /\ pc = "raised" => ~RowsBuild(analysis_results)
        /\ Logged(HtmlError) =>
              /\ pc = "done"
              /\ ret = [k |-> "list", len |-> Len(all_questions)]
        /\ (pc \in {"write_html", "done"} /\ analysis_results # <<>>) =>
              WrittenInFull(output_file.s) \/ Logged(CsvError)
        /\ (pc = "done" /\ analysis_results # <<>>) =>
              \/ WrittenInFull(Replace(output_file.s, ExtCsv, ExtHtml))
              \/ Logged(HtmlError)

C11_Witness ==
    /\ fn = "analyze_video_comments"
    /\ pc = "done"
    /\ Logged(CsvError)
    /\ Len(files) = 2
    /\ ~files[1].complete
    /\ files[2].complete
    /\ files[2].lines = <<HtmlHead>> \o HtmlRows(analysis_results)
    /\ Len(analysis_results) = 2

\* C12 (as claimed): the path of every file a run writes is the base path
\* the caller gave followed by exactly one of .csv, .md and .html.
ExtMd == <<".", "m", "d">>
ReportExtensions == {ExtCsv, ExtMd, ExtHtml}

\* the base path of the run: analyze_video_comments is handed base + .csv
BasePath ==
    IF fn = "analyze_video_comments"
    THEN SubSeq(output_file.s, 1, Len(output_file.s) - Len(ExtCsv))
    ELSE output_file_base.s

C12_BasePlusExtension ==
    (fn \in {"run_reddit_analysis", "analyze_video_comments"}
        /\ files # <<>>) =>
        \A f \in 1..Len(files) :
            \E ext \in ReportExtensions : files[f].path = BasePath \o ext

\* C13: when the fetch of one requested subreddit fails, get_reddit_posts
\* reports it and goes on to the next one without raising: the posts got
\* so far are kept, those of the other subreddits follow in requested
\* order, and the run reports on them.
FetchError == "ERROR: Could not fetch posts"

IsPrefix(a, b) == Len(a) <= Len(b) /\ SubSeq(b, 1, Len(a)) = a

C13_FetchStep ==
    (pc = "get_posts" /\ fn = "run_reddit_analysis") =>
        /\ pc' # "raised"
        /\ IsPrefix(posts, posts')
        /\ \A j \in (Len(posts) + 1)..Len(posts') :
              posts'[j].subreddit = subreddits[i + 1]
        /\ (i' = i + 1 /\ log' # log) =>
              /\ log' = Append(log, FetchError)
              /\ posts' = posts
              /\ pc' = "get_posts"

C13_PostsReported ==
    fn = "run_reddit_analysis" =>
        /\ InFetchOrder(posts)
        /\ (pc \in {"save_csv", "deep_dive", "done"} /\ posts # <<>>) =>
              DensityReported
        /\ \A f \in 1..Len(files) :
              (IsCsvPath(files[f].path) /\ files[f].complete) =>
                  files[f].lines = <<RedditHeader>> \o RedditRows(posts)

C13_SubredditFaultIsolated ==
    [][C13_FetchStep]_vars /\ []C13_PostsReported

C13_Witness ==
    /\ fn = "run_reddit_analysis"
    /\ pc = "done"
    /\ Len(subreddits) = 2
    /\ Logged(FetchError)
    /\ Len(posts) = 2
    /\ posts[1].subreddit = 2
    /\ Len(files) = 1
    /\ files[1].complete
    /\ Len(files[1].lines) = 3

\* C14 (as claimed): a collaborator whose credential value is missing or a
\* placeholder gets no network call in that run, and the run reports the
\* failure.
ErrorLogged ==
    \E j \in 1..Len(log) :
        log[j] \in {"ERROR: YouTube API Key not found or not set",
                    "ERROR: Failed to connect to Reddit",
                    "ERROR: Failed to configure Gemini API"}

C14_NoCallWithoutCredential ==
    \A col \in Collaborators :
        config[col] # "valid" =>
            /\ col \notin contacted
            /\ pc \in {"done", "raised"} => (pc = "done" /\ ErrorLogged)

\* C15 (as claimed): when the deep-dive call gives no result,
\* run_reddit_analysis still finishes: no exception leaves it, the CSV
\* written before is kept and no deep-dive report is written.
DeepDiveAsked ==
    \E j \in 1..Len(requests) : requests[j].by = "perform_deep_dive"

C15_DeepDiveFailureContained ==
    (fn = "run_reddit_analysis" /\ DeepDiveAsked /\ analysis_result = None) =>
        /\ pc = "done"
        /\ \A f \in 1..Len(files) : IsCsvPath(files[f].path)

\* C16 (as claimed): whatever the shape of the decoded answer, the batchers
\* raise nothing: they return a merge result holding only what the
\* classifier returned, or None.
ReturnedIds ==
    IF fn = "analyze_comments_batch"
    THEN {analysis_result.results[j].id :
             j \in 1..Len(analysis_result.results)}
    ELSE {analysis_result.ids[j] : j \in 1..Len(analysis_result.ids)}

C16_AnyShapeNoRaise ==
    (fn \in BatchFns /\ pc \in {"done", "raised"}
        /\ analysis_result # Raise) =>
        /\ pc = "done"
        /\ ret # None => ret.keys \subseteq ReturnedIds

\* C17 (as claimed): analyze_thumbnails_style returns None when the
\* classification call fails, as it does when no image could be
\* downloaded; a failed call never gives a non-empty text.
C17_ThumbnailFailureIsNone ==
    (fn = "analyze_thumbnails_style" /\ pc = "done"
        /\ (Logged("ERROR: Gemini multimodal API call")
            \/ Logged("ERROR: No valid images could be downloaded"))) =>
        ret = None

\* C18 (as claimed): the comment-analysis flow sends one classification
\* request per non-empty batch, the comments of one video, however many
\* comments the batch holds.
VideoOf(text) == text[2]

NonEmptyBatches == {VideoOf(fetched[j].text) : j \in 1..Len(fetched)}

C18_OneRequestPerBatch ==
    (fn = "analyze_video_comments" /\ pc \in {"write_html", "done"}) =>
        Len(requests) = Cardinality(NonEmptyBatches)

\* C19 (as claimed): a comment whose answer is missing, or lacks a
\* category or a summary, is left out of the rows and of the question
\* list and nothing is raised; every row has the category and the summary
\* the classifier returned for its comment.
Incomplete(v) ==
    \/ ~Truthy(v)
    \/ v.k = "dict" /\ ~({"category", "summary"} \subseteq v.keys)

C19_IncompleteResultsLeftOut ==
    (fn = "analyze_video_comments" /\ pc \in {"comments", "raised"}
        /\ c > 0 /\ analysis_result # Raise /\ Incomplete(analysis_result)) =>
        /\ pc = "comments"
        /\ \A r \in 1..Len(analysis_results) :
              analysis_results[r].comment_text # comments[c].text

\* C20 (as claimed): with no destination path (the base is None or empty)
\* run_reddit_analysis writes no file, still completes its analysis with
\* the console summary, and raises nothing (checked for runs with a working
\* Reddit credential).
NoDestination ==
    output_file_base = None \/ output_file_base = [k |-> "str", s |-> <<>>]

C20_NoPathNoFile ==
    (fn = "run_reddit_analysis" /\ NoDestination
        /\ config["REDDIT"] = "valid") =>
        /\ files = <<>>
        /\ (pc = "raised" => analysis_result \in {None, Raise} /\ DeepDiveAsked)
        /\ (pc = "done" /\ posts # <<>>) => DensityReported

\* ------------------------------------------------------------ C21 .. C30
\* the order the report's columns are read in: the like count as a number,
\* the other columns as text in lower case
KeyLess(col, x, y) ==
    IF col = 1
    THEN ParseInt(x.textContent[2]) < ParseInt(y.textContent[2])
    ELSE TextLess(Lower(x.textContent[col + 1]), Lower(y.textContent[col + 1]))

Ascending(rows, col) ==
    \A j \in 2..(Len(rows) - 1) : ~KeyLess(col, rows[j + 1], rows[j])

Descending(rows, col) ==
    \A j \in 2..(Len(rows) - 1) : ~KeyLess(col, rows[j], rows[j + 1])

\* the steps of one click on a header: the rows stay as they were until the
\* first switch, the direction turns to descending only over rows that are
\* ascending and were not switched, a first switch happens only over rows
\* that are not ascending, and the click ends over rows sorted in its
\* direction
C21_ClickStep ==
    /\ pc = "page" /\ pc' = "sorting" =>
          table' = table /\ dir' = "asc" /\ switchcount' = 0
    /\ pc = "sorting" /\ table' # table =>
          switchcount' = switchcount + 1 /\ dir' = dir
    /\ pc = "sorting" /\ switchcount = 0 /\ switchcount' # 0 /\ dir = "asc" =>
          ~Ascending(table, columnIndex)
    /\ pc = "sorting" /\ dir' # dir =>
          /\ dir = "asc" /\ dir' = "desc" /\ switchcount = 0
          /\ Ascending(table, columnIndex)
          /\ table' = table
    /\ pc = "sorting" /\ pc' = "page" =>
          /\ table' = table
          /\ IF dir = "asc"
             THEN switchcount > 0 /\ Ascending(table, columnIndex)
             ELSE Descending(table, columnIndex)

\* C21: a click on a sortable header leaves the body rows sorted by that
\* column, ascending if they were not in ascending order before the click
\* and descending if they were, so repeated clicks alternate; the like
\* count is compared as a number, the other columns as lower-cased text.
C21_ClicksAlternate == [][C21_ClickStep]_vars

\* three rows rendered as 5, 50, 9 likes stand as 50, 9, 5 after clicks on
\* the like count: a first click made them ascending, a second descending
C21_Witness ==
    /\ pc = "page"
    /\ columnIndex = 1
    /\ dir = "desc"
    /\ Len(table) = 4
    /\ [j \in 1..3 |-> table[j + 1].pos] = <<2, 3, 1>>
    /\ [j \in 1..3 |-> ParseInt(table[j + 1].textContent[2])] = <<50, 9, 5>>

Likes(row) == ParseInt(row.textContent[2])

\* where the row element pos stands in rows
PlaceOf(rows, pos) == CHOOSE j \in 1..Len(rows) : rows[j].pos = pos

\* the rows of s with row put behind every row that has no more likes
RECURSIVE InsertByLikes(_, _)
InsertByLikes(s, row) ==
    IF s = <<>> \/ Likes(s[Len(s)]) <= Likes(row) THEN Append(s, row)
    ELSE Append(InsertByLikes(SubSeq(s, 1, Len(s) - 1), row), s[Len(s)])

\* the one ascending order of rows that keeps rows of equal like count in
\* the order they stand in
RECURSIVE StableByLikes(_)
StableByLikes(rows) ==
    IF rows = <<>> THEN <<>>
    ELSE InsertByLikes(StableByLikes(SubSeq(rows, 1, Len(rows) - 1)),
                       rows[Len(rows)])

Body(rows) == SubSeq(rows, 2, Len(rows))

\* a step of a sort by like count keeps the relative order of every two
\* rows with equal like count, and so the ascending order the rows have
\* (the same one before and after the step); the sort ends ascending only
\* in that order
C22_LikeSortStep ==
    pc = "sorting" /\ columnIndex = 1 =>
        /\ \A a, b \in 2..Len(table) :
              a < b /\ Likes(table[a]) = Likes(table[b]) =>
                 PlaceOf(table', table[a].pos) < PlaceOf(table', table[b].pos)
        /\ StableByLikes(Body(table')) = StableByLikes(Body(table))
        /\ pc' = "page" /\ dir = "asc" =>
              Body(table) = StableByLikes(Body(table))

\* C22: sorting by like count is stable and reproducible: rows with equal
\* like count keep their relative order, and every later sort by like count
\* that ends ascending ends in the same row order.
C22_StableReproducible == [][C22_LikeSortStep]_vars

\* rows rendered with 5, 50, 5 likes after an ascending sort: both 5-rows
\* before the 50-row, the first rendered of them first
C22_Witness ==
    /\ pc = "page"
    /\ columnIndex = 1
    /\ dir = "asc"
    /\ Len(table) = 4
    /\ [j \in 1..3 |-> table[j + 1].pos] = <<1, 3, 2>>
    /\ [j \in 1..3 |-> Likes(table[j + 1])] = <<5, 5, 50>>

\* a row is shown when no option is selected or its category is the
\* selected option, and the keyword in lower case is part of its summary or
\* of its comment in lower case
ShownByFilter(row) ==
    /\ categoryFilter = <<>> \/ row.textContent[1] = categoryFilter
    /\ \/ Contains(Lower(row.textContent[3]), Lower(keywordFilter))
       \/ Contains(Lower(row.textContent[4]), Lower(keywordFilter))

\* C23: after filterTable a body row is visible exactly when no category
\* option is selected or its category equals the selected option, and the
\* filter text in lower case is part of its lower-cased summary or comment.
\* Violated: the category test is a substring test.
C23_ExactCategoryFilter ==
    pc \in {"page", "sorting"} =>
        \A j \in 2..Len(table) :
            (table[j].display = "") <=> ShownByFilter(table[j])

\* the decoded answer holds the top-level key with an empty array
EmptyAnswer ==
    /\ analysis_result.k = "dict"
    /\ IF fn = "analyze_comments_batch"
       THEN "results" \in analysis_result.keys /\ analysis_result.results = <<>>
       ELSE /\ "problem_post_ids" \in analysis_result.keys
            /\ analysis_result.is_list
            /\ analysis_result.hashable
            /\ analysis_result.ids = <<>>

\* there is no answer, or it is an object without the top-level key
MissingAnswer ==
    \/ analysis_result = None
    \/ /\ analysis_result.k = "dict"
       /\ IF fn = "analyze_comments_batch"
          THEN "results" \notin analysis_result.keys
          ELSE "problem_post_ids" \notin analysis_result.keys

\* C24: for a non-empty batch with zero results the batch functions return
\* an empty mapping (comments) or an empty set (posts), which is not the
\* None they return when the answer is missing or lacks its top-level key.
C24_EmptyIsNotNone ==
    fn \in BatchFns /\ pc = "done" /\ items # <<>> =>
        /\ EmptyAnswer =>
              /\ ret # None
              /\ ret.k = (IF fn = "analyze_comments_batch" THEN "dict" ELSE "set")
              /\ ret.keys = {}
        /\ MissingAnswer => ret = None

C24_Witness ==
    /\ fn = "analyze_comments_batch"
    /\ pc = "done"
    /\ items # <<>>
    /\ EmptyAnswer
    /\ ret.k = "dict"
    /\ ret.keys = {}

\* the bucket of v when every boundary belongs to the bucket it starts:
\* one more than the number of boundaries v has reached
HalfOpenBucket(v) ==
    LET bounds == IF fn = "analyze_content_freshness"
                  THEN AgeBounds ELSE SubsBounds
    IN 1 + Cardinality({b \in 1..3 : bounds[b] <= v})

\* C25: the bucket boundaries are half-open in both distributions: a value
\* equal to a boundary is counted in the bucket that starts at it.
\* Violated: an age of exactly 30, 180 or 365 days is counted in the
\* bucket that ends there.
C25_HalfOpenBoundaries ==
    (fn \in BucketFns /\ distribution # <<>>) =>
        \A b \in 1..4 :
            distribution[b].count =
                Cardinality({j \in 1..i : HalfOpenBucket(ValueOf(j)) = b})

\* an item with its id left out of the comparison
WithoutId(item) == [item EXCEPT !.id = NoId]

C26_BatchStep ==
    fn \in BatchFns /\ pc # "idle" =>
        /\ Len(items') = Len(items)
        /\ \A j \in 1..Len(items) : WithoutId(items'[j]) = WithoutId(items[j])

\* C26: batching changes nothing of the caller's items but 'id': the list
\* keeps its length and order and every other field of every item its
\* value, whether the call returns a result, returns None or raises.
C26_OnlyIdChanges == [][C26_BatchStep]_vars

\* a call that failed after it numbered two comments: their texts are in
\* the prompt lines that were built from them
C26_Witness ==
    /\ fn = "analyze_comments_batch"
    /\ pc = "done"
    /\ ret = None
    /\ Len(items) = 2
    /\ \A j \in 1..2 : items[j].id = j - 1 /\ items[j].text = prompt_lines[j].text

\* C27: there is no retry: an invocation of get_gemini_analysis calls
\* generate_content at most once, and no run hands the same prompt to
\* get_gemini_analysis a second time, whatever the first request came to.
C27_NoRetry ==
    /\ fn = "get_gemini_analysis" => sent <= 1
    /\ \A a, b \in 1..Len(requests) : a < b => requests[a] # requests[b]

\* a request that failed, and the invocation ended with that one call
C27_Witness ==
    /\ fn = "get_gemini_analysis"
    /\ pc = "done"
    /\ sent = 1
    /\ ret = None
    /\ response = None
    /\ "GEMINI" \in contacted

\* C28: sortTable terminates for every table, any number of rows, any cell
\* contents and any sortable column, also after the direction has turned
\* to descending: a sort that was started comes back to the page.
C28_SortTerminates == (pc = "sorting") ~> (pc = "page")

\* a sort that turned to descending, switched rows there and ended
C28_Witness ==
    /\ pc = "page"
    /\ dir = "desc"
    /\ switchcount = 3
    /\ Len(table) = 4

\* the lines of the report file the page was opened from
ReportLines == files[Len(files)].lines

\* the table holds the header first and then every row of the file once,
\* with the cells it was rendered with
C29_SameRows ==
    pc \in {"page", "sorting"} =>
        /\ Len(table) = Len(ReportLines)
        /\ table[1] = HeaderRow
        /\ \A p \in 1..(Len(table) - 1) :
              \E j \in 2..Len(table) :
                 /\ [table[j] EXCEPT !.display = ""] = Tr(ReportLines[p + 1], p)
                 /\ \A j2 \in 2..Len(table) : table[j2].pos = p => j2 = j

\* a step of a sort leaves every row shown or hidden as it was, a filter
\* leaves every row in its place
C29_PageStep ==
    /\ pc = "sorting" =>
          \A j \in 2..Len(table) :
             table'[PlaceOf(table', table[j].pos)].display = table[j].display
    /\ pc = "page" /\ pc' = "page" =>
          /\ Len(table') = Len(table)
          /\ \A j \in 1..Len(table) : table'[j].pos = table[j].pos

\* C29: after any sequence of sorts and filters the table holds exactly the
\* rows it was rendered with: sorting only permutes the body rows (the
\* header stays first) and leaves their visibility alone, filtering only
\* changes visibility and leaves the order alone.
C29_RowsKept == [][C29_PageStep]_vars /\ []C29_SameRows

\* three rows after a sort and a filter: out of file order, one hidden
C29_Witness ==
    /\ pc = "page"
    /\ Len(table) = 4
    /\ table[2].pos = 3
    /\ table[2].display = "none"
    /\ table[4].display = ""

Views(v) == ParseInt(v.viewCount)

FetchFailed == Logged("ERROR: Failed to fetch videos for channel")

\* how many videos a run with this limit can select from the channel
Selected == IF video_limit < Len(uploads) THEN video_limit ELSE Len(uploads)

\* the videos are Selected different videos of the channel, no video left
\* out has more views than one that is in, and they stand in non-increasing
\* order of views
MostViewed(vs) ==
    /\ Len(vs) = Selected
    /\ \A j \in 1..Len(vs) : vs[j] = uploads[vs[j].id]
    /\ \A j, j2 \in 1..Len(vs) : j # j2 => vs[j].id # vs[j2].id
    /\ \A j \in 1..Len(vs), u \in 1..Len(uploads) :
          (\A j2 \in 1..Len(vs) : vs[j2].id # u) =>
             Views(vs[j]) >= Views(uploads[u])
    /\ \A j \in 1..(Len(vs) - 1) : Views(vs[j]) >= Views(vs[j + 1])

====
